---- MODULE Spec2Model ----
(***************************************************************************)
(* hawkeye-api: the Watcher control plane.  A Watcher is backed by three   *)
(* Kubernetes resources named from its id: a ConfigMap (Config), a         *)
(* Deployment (Workload) and a Service (Endpoint).  The handlers are async *)
(* functions; every `.await` on a platform call is a point where another   *)
(* request may run, so each handler is modelled as one action per awaited  *)
(* platform call, together with the synchronous code that follows it.      *)
(*                                                                         *)
(* Option<T> is modelled as a sequence of length at most one:              *)
(* None = <<>>, Some(x) = <<x>>.                                           *)
(***************************************************************************)
EXTENDS Naturals, Sequences, FiniteSets, TLC

VARIABLES
    deployments,  \* the Workload resources of the namespace: id -> Deployment
    configmaps,   \* the Config resources: id -> ConfigMap data ("watcher.json")
    services,     \* the Endpoint resources: id -> Service
    uuids,        \* how many identifiers Uuid::new_v4 has handed out
    procs,        \* the requests in flight: one record per request slot
    probe         \* argument and results of a direct call of the two resolvers

vars == <<deployments, configmaps, services, uuids, procs, probe>>

----------------------------------------------------------------------------
(* Bounds *)

NumProcs == 2       \* request slots, i.e. requests that may be in flight at once
MaxCreates == 1     \* identifiers Uuid::new_v4 may hand out
MaxAvailable == 2   \* largest available_replicas value a resolver is probed with

Procs == 1..NumProcs
ExistingId == 1                          \* the Watcher present before the first request
Ids == 1..(ExistingId + MaxCreates)
Ports == {8080}

----------------------------------------------------------------------------
(* Option helpers *)

None == <<>>
Some(x) == <<x>>
\* Option::flatten
Flatten(o) == IF o = None THEN None ELSE o[1]
\* Option::unwrap_or (the default is an already evaluated value)
UnwrapOr(o, dflt) == IF o = None THEN dflt ELSE o[1]

----------------------------------------------------------------------------
(* hawkeye_core::models::Status and its text form in the target_status label *)

Status == {"Running", "Pending", "Ready", "Error"}
PANIC == "panic"    \* the call did not return: the thread panicked

\* fault: a parse that falls back to Ready on a text it does not know
from_str_Status_defaulting(text) ==
    CASE text = "Running" -> Some("Running")
      [] text = "Pending" -> Some("Pending")
      [] text = "Error"   -> Some("Error")
      [] OTHER            -> Some("Ready")

\* serde_json::from_str::<Status>(&format!("\"{}\"", status)).ok()
from_str_Status(text) ==
    CASE text = "Running" -> Some("Running")
      [] text = "Pending" -> Some("Pending")
      [] text = "Ready"   -> Some("Ready")
      [] text = "Error"   -> Some("Error")
      [] OTHER            -> None

\* serde_json::from_str::<Option<Status>>(...).ok(): the type the backend's
\* and_then/flatten/flatten chain forces on the parse
from_str_Option_Status(text) ==
    IF from_str_Status(text) = None THEN None ELSE Some(from_str_Status(text))

\* json!({"target_status": status}): the label text a Status is written as
to_label(status) ==
    CASE status = "Running" -> "Running"
      [] status = "Pending" -> "Pending"
      [] status = "Ready"   -> "Ready"
      [] status = "Error"   -> "Error"

\* labels.get("target_status")
labels_get(labels, key) == IF key \in DOMAIN labels THEN Some(labels[key]) ELSE None

\* fault: a Workload counts as running only from two available replicas on
deploy_status_above_one(status) ==
    IF UnwrapOr(status.available_replicas, 0) > 1 THEN "Running" ELSE "Ready"

\* status.available_replicas.unwrap_or(0) > 0
deploy_status(status) ==
    IF UnwrapOr(status.available_replicas, 0) > 0 THEN "Running" ELSE "Ready"

\* fault: a table that treats a stop in progress (target Ready, replicas
\* still available) as an error
resolve_one_sided(deploy, target) ==
    CASE deploy = "Running" /\ target = "Running" -> "Running"
      [] deploy = "Ready"   /\ target = "Ready"   -> "Ready"
      [] deploy = "Ready"   /\ target = "Running" -> "Pending"
      [] OTHER -> "Error"

\* match (deploy_status, target_status)
resolve(deploy, target) ==
    CASE deploy = "Running" /\ target = "Running" -> "Running"
      [] deploy = "Ready"   /\ target = "Ready"   -> "Ready"
      [] deploy = "Ready"   /\ target = "Running" -> "Pending"
      [] deploy = "Running" /\ target = "Ready"   -> "Pending"
      [] OTHER -> "Error"

\* backend::get_watcher_status.  The argument of unwrap_or is evaluated before
\* unwrap_or is called, so `expect("Name must be present")` runs on every call.
get_watcher_status(deployment) ==
    LET parsed == IF deployment.labels = None THEN None
                  ELSE LET got == labels_get(deployment.labels[1], "target_status")
                       IN IF got = None THEN None
                          ELSE Some(from_str_Option_Status(got[1]))
        target_opt == Flatten(Flatten(parsed))
    IN IF deployment.name = None THEN PANIC
       ELSE LET target_status == UnwrapOr(target_opt, "Error")
            IN IF deployment.status # None
               THEN resolve(deploy_status(deployment.status[1]), target_status)
               ELSE "Error"

\* handlers: impl WatcherStatus for Deployment
WatcherStatus_get_watcher_status(self) ==
    LET mapped == IF self.labels = None THEN None
                  ELSE LET got == labels_get(self.labels[1], "target_status")
                       IN Some(IF got = None THEN None
                               ELSE Some(from_str_Status(got[1])))
        target_opt == Flatten(Flatten(mapped))
    IN IF self.name = None THEN PANIC
       ELSE LET target_status == UnwrapOr(target_opt, "Error")
            IN IF self.status # None
               THEN resolve(deploy_status(self.status[1]), target_status)
               ELSE "Error"

----------------------------------------------------------------------------
(* The cluster *)

\* templates::deployment_name: the resource name is a function of the id
deployment_name(id) == id

\* the texts a target_status label may hold when the model starts
LabelTexts == {"Running", "Pending", "Ready", "Error", "bogus"}

\* metadata.labels of a Workload: absent, without the key, or with a text
LabelMaps(id) ==
    {None, Some([watcher_id |-> id])}
    \cup {Some([watcher_id |-> id, target_status |-> t]) : t \in LabelTexts}

\* status of a Workload: absent, or with available_replicas unreported or a count
StatusBlocks(max) ==
    {None, Some([available_replicas |-> None])}
    \cup {Some([available_replicas |-> Some(n)]) : n \in 0..max}

\* the container specification an earlier release of the templates deployed
previous_container_spec(id, port) == [watcher |-> id, port |-> port, release |-> "previous"]

\* the Workloads the platform may hold for `id` before the first request
InitialDeployments(id) ==
    [name : {Some(deployment_name(id))},
     labels : LabelMaps(id),
     replicas : {0, 1},
     status : StatusBlocks(1),
     containers : {previous_container_spec(id, 8080)}]

\* the record serialised under "watcher.json"
WatcherRecord(id, port) ==
    [id |-> Some(id), ingest_port |-> port, status |-> None,
     status_description |-> None, ingest_ip |-> None]

\* Api::get: Err when the call fails or the resource does not exist
api_get(resources, id, ok) ==
    IF ok /\ id \in DOMAIN resources THEN Some(resources[id]) ELSE None

\* the resource set with `id` mapped to `r`
Put(resources, id, r) ==
    [k \in DOMAIN resources \cup {id} |-> IF k = id THEN r ELSE resources[k]]

\* the resource set without `id`
Remove(resources, id) == [k \in DOMAIN resources \ {id} |-> resources[k]]

\* fault: the patch writes the label under the key "status"
merge_label_wrong_key(labels, text) ==
    IF labels = None THEN Some([status |-> text])
    ELSE Some([k \in DOMAIN labels[1] \cup {"status"} |->
                  IF k = "status" THEN text ELSE labels[1][k]])

\* what a merge patch of metadata.labels.target_status does to the label map
merge_label(labels, text) ==
    IF labels = None THEN Some([target_status |-> text])
    ELSE Some([k \in DOMAIN labels[1] \cup {"target_status"} |->
                  IF k = "target_status" THEN text ELSE labels[1][k]])

----------------------------------------------------------------------------
(* Requests *)

\* no reply yet
NoReply == [none |-> TRUE]

Idle == [op |-> "none", id |-> 0, pc |-> "idle", st |-> "none", w |-> None,
         index |-> <<>>, calls |-> <<>>, resp |-> NoReply]

\* a request slot is free before its first request and after each response
Free(p) == procs[p].pc \in {"idle", "done"}

\* an HTTP reply: reply::with_status(reply::json(..), code)
Reply(code, message) == [code |-> code, message |-> message, watcher |-> None]
ReplyWatcher(code, w) == [code |-> code, message |-> "", watcher |-> Some(w)]
\* Ok(warp::reply::json(&watchers)): the Watchers, here keyed by their Config
ReplyWatchers(ws) == [code |-> 200, message |-> "", watcher |-> None, watchers |-> ws]
\* a value of WatcherStartStatus / WatcherStopStatus
Variant(v) == [variant |-> v]
\* `.unwrap()` on an Err: the request's task panics and no reply is produced
Panicked == [panic |-> TRUE]

Finish(p, r) == [procs[p] EXCEPT !.pc = "done", !.resp = r]

Begin(op, id) == [Idle EXCEPT !.op = op, !.id = id]

\* fault: a scale call that adds to the replica count instead of setting it
patch_scale_delta(id, n) ==
    deployments' = [deployments EXCEPT ![id].replicas = @ + n]

\* Api::patch_scale(name, {"spec": {"replicas": n}})
patch_scale(id, n) ==
    deployments' = [deployments EXCEPT ![id].replicas = n]

\* fault: a label patch that is acknowledged and not applied
patch_target_status_dropped(id, status) ==
    deployments' = deployments

\* Api::patch(name, {"metadata": {"labels": {"target_status": status}}})
patch_target_status(id, status) ==
    deployments' = [deployments EXCEPT ![id].labels = merge_label(@, to_label(status))]

----------------------------------------------------------------------------
(* backend.rs: the guarded transitions *)

\* backend::start_watcher: the match on the derived status; only Ready goes on to the platform calls
backend_start_watcher_match(st) ==
    CASE st = "Running" -> [pc |-> "done", resp |-> Variant("AlreadyRunning")]
      [] st = "Pending" -> [pc |-> "done", resp |-> Variant("CurrentlyUpdating")]
      [] st = "Error"   -> [pc |-> "done", resp |-> Variant("InErrorState")]
      [] st = "Ready"   -> [pc |-> "scale", resp |-> NoReply]
      [] OTHER          -> [pc |-> "done", resp |-> Panicked]

\* backend::start_watcher: fetch the Workload, derive its status, apply the guard
backend_start_watcher(p, id) ==
    /\ Free(p)
    /\ \E ok \in BOOLEAN :
         LET me == Begin("backend::start_watcher", id)
             got == api_get(deployments, id, ok)
             st == IF got = None THEN "unfetched" ELSE get_watcher_status(got[1])
             m == backend_start_watcher_match(st)
         IN procs' = [procs EXCEPT ![p] =
                IF got = None
                THEN [me EXCEPT !.st = st, !.pc = "done", !.resp = Variant("NotFound")]
                ELSE [me EXCEPT !.st = st, !.pc = m.pc, !.resp = m.resp]]
    /\ UNCHANGED <<deployments, configmaps, services, uuids, probe>>

\* fault: the result of the scale call is dropped and the label patch follows anyway
backend_start_watcher_scale_unchecked(p) ==
    /\ procs[p].op = "backend::start_watcher" /\ procs[p].pc = "scale"
    /\ \E ok \in BOOLEAN :
         LET id == procs[p].id
             me == [procs[p] EXCEPT !.calls = Append(@, "patch_scale(replicas=1)")]
         IN /\ IF ok /\ id \in DOMAIN deployments
               THEN patch_scale(id, 1)
               ELSE UNCHANGED deployments
            /\ procs' = [procs EXCEPT ![p] = [me EXCEPT !.pc = "label"]]
    /\ UNCHANGED <<configmaps, services, uuids, probe>>

\* backend::start_watcher: the scale call of the Ready branch; its result is unwrapped
backend_start_watcher_scale(p) ==
    /\ procs[p].op = "backend::start_watcher" /\ procs[p].pc = "scale"
    /\ \E ok \in BOOLEAN :
         LET id == procs[p].id
             me == [procs[p] EXCEPT !.calls = Append(@, "patch_scale(replicas=1)")]
         IN IF ok /\ id \in DOMAIN deployments
            THEN /\ patch_scale(id, 1)
                 /\ procs' = [procs EXCEPT ![p] = [me EXCEPT !.pc = "label"]]
            ELSE /\ UNCHANGED deployments
                 /\ procs' = [procs EXCEPT ![p] = [me EXCEPT !.pc = "done", !.resp = Panicked]]
    /\ UNCHANGED <<configmaps, services, uuids, probe>>

\* backend::start_watcher: the target_status patch of the Ready branch; its result is unwrapped
backend_start_watcher_label(p) ==
    /\ procs[p].op = "backend::start_watcher" /\ procs[p].pc = "label"
    /\ \E ok \in BOOLEAN :
         LET id == procs[p].id
             me == [procs[p] EXCEPT !.calls = Append(@, "patch(target_status=Running)")]
         IN IF ok /\ id \in DOMAIN deployments
            THEN /\ patch_target_status(id, "Running")
                 /\ procs' = [procs EXCEPT ![p] = [me EXCEPT !.pc = "done", !.resp = Variant("Starting")]]
            ELSE /\ UNCHANGED deployments
                 /\ procs' = [procs EXCEPT ![p] = [me EXCEPT !.pc = "done", !.resp = Panicked]]
    /\ UNCHANGED <<configmaps, services, uuids, probe>>

\* fault: a stop that goes on to the platform calls while a transition is pending
backend_stop_watcher_match_pending(st) ==
    CASE st = "Ready" -> [pc |-> "done", resp |-> Variant("AlreadyStopped")]
      [] st = "Error"   -> [pc |-> "done", resp |-> Variant("InErrorState")]
      [] st \in {"Running", "Pending"} -> [pc |-> "scale", resp |-> NoReply]
      [] OTHER          -> [pc |-> "done", resp |-> Panicked]

\* backend::stop_watcher: the match on the derived status; only Running goes on to the platform calls
backend_stop_watcher_match(st) ==
    CASE st = "Ready" -> [pc |-> "done", resp |-> Variant("AlreadyStopped")]
      [] st = "Pending" -> [pc |-> "done", resp |-> Variant("CurrentlyUpdating")]
      [] st = "Error"   -> [pc |-> "done", resp |-> Variant("InErrorState")]
      [] st = "Running"   -> [pc |-> "scale", resp |-> NoReply]
      [] OTHER          -> [pc |-> "done", resp |-> Panicked]

\* backend::stop_watcher: fetch the Workload, derive its status, apply the guard
backend_stop_watcher(p, id) ==
    /\ Free(p)
    /\ \E ok \in BOOLEAN :
         LET me == Begin("backend::stop_watcher", id)
             got == api_get(deployments, id, ok)
             st == IF got = None THEN "unfetched" ELSE get_watcher_status(got[1])
             m == backend_stop_watcher_match(st)
         IN procs' = [procs EXCEPT ![p] =
                IF got = None
                THEN [me EXCEPT !.st = st, !.pc = "done", !.resp = Variant("NotFound")]
                ELSE [me EXCEPT !.st = st, !.pc = m.pc, !.resp = m.resp]]
    /\ UNCHANGED <<deployments, configmaps, services, uuids, probe>>

\* backend::stop_watcher: the scale call of the Running branch; its result is unwrapped
backend_stop_watcher_scale(p) ==
    /\ procs[p].op = "backend::stop_watcher" /\ procs[p].pc = "scale"
    /\ \E ok \in BOOLEAN :
         LET id == procs[p].id
             me == [procs[p] EXCEPT !.calls = Append(@, "patch_scale(replicas=0)")]
         IN IF ok /\ id \in DOMAIN deployments
            THEN /\ patch_scale(id, 0)
                 /\ procs' = [procs EXCEPT ![p] = [me EXCEPT !.pc = "label"]]
            ELSE /\ UNCHANGED deployments
                 /\ procs' = [procs EXCEPT ![p] = [me EXCEPT !.pc = "done", !.resp = Panicked]]
    /\ UNCHANGED <<configmaps, services, uuids, probe>>

\* backend::stop_watcher: the target_status patch of the Running branch; its result is unwrapped
backend_stop_watcher_label(p) ==
    /\ procs[p].op = "backend::stop_watcher" /\ procs[p].pc = "label"
    /\ \E ok \in BOOLEAN :
         LET id == procs[p].id
             me == [procs[p] EXCEPT !.calls = Append(@, "patch(target_status=Ready)")]
         IN IF ok /\ id \in DOMAIN deployments
            THEN /\ patch_target_status(id, "Ready")
                 /\ procs' = [procs EXCEPT ![p] = [me EXCEPT !.pc = "done", !.resp = Variant("Stopping")]]
            ELSE /\ UNCHANGED deployments
                 /\ procs' = [procs EXCEPT ![p] = [me EXCEPT !.pc = "done", !.resp = Panicked]]
    /\ UNCHANGED <<configmaps, services, uuids, probe>>

----------------------------------------------------------------------------
(* handlers.rs: the guarded transitions *)

\* fault: a copy of the guard that starts a Watcher whose transition is pending
handlers_start_watcher_match_pending(st) ==
    CASE st = "Running" -> [pc |-> "done", resp |-> Reply(200, "Watcher is already running")]
      [] st = "Pending" -> [pc |-> "scale", resp |-> NoReply]
      [] st = "Error"   -> [pc |-> "done", resp |-> Reply(406, "Watcher in error state cannot be set to running")]
      [] st = "Ready"   -> [pc |-> "scale", resp |-> NoReply]
      [] OTHER          -> [pc |-> "done", resp |-> Panicked]

\* handlers::start_watcher: the match on the derived status; only Ready goes on to the platform calls
handlers_start_watcher_match(st) ==
    CASE st = "Running" -> [pc |-> "done", resp |-> Reply(200, "Watcher is already running")]
      [] st = "Pending" -> [pc |-> "done", resp |-> Reply(409, "Watcher is currently updating")]
      [] st = "Error"   -> [pc |-> "done", resp |-> Reply(406, "Watcher in error state cannot be set to running")]
      [] st = "Ready"   -> [pc |-> "scale", resp |-> NoReply]
      [] OTHER          -> [pc |-> "done", resp |-> Panicked]

\* handlers::start_watcher: fetch the Workload, derive its status, apply the guard
handlers_start_watcher(p, id) ==
    /\ Free(p)
    /\ \E ok \in BOOLEAN :
         LET me == Begin("handlers::start_watcher", id)
             got == api_get(deployments, id, ok)
             st == IF got = None THEN "unfetched" ELSE WatcherStatus_get_watcher_status(got[1])
             m == handlers_start_watcher_match(st)
         IN procs' = [procs EXCEPT ![p] =
                IF got = None
                THEN [me EXCEPT !.st = st, !.pc = "done", !.resp = Reply(404, "")]
                ELSE [me EXCEPT !.st = st, !.pc = m.pc, !.resp = m.resp]]
    /\ UNCHANGED <<deployments, configmaps, services, uuids, probe>>

\* handlers::start_watcher: the scale call of the Ready branch; its result is unwrapped
handlers_start_watcher_scale(p) ==
    /\ procs[p].op = "handlers::start_watcher" /\ procs[p].pc = "scale"
    /\ \E ok \in BOOLEAN :
         LET id == procs[p].id
             me == [procs[p] EXCEPT !.calls = Append(@, "patch_scale(replicas=1)")]
         IN IF ok /\ id \in DOMAIN deployments
            THEN /\ patch_scale(id, 1)
                 /\ procs' = [procs EXCEPT ![p] = [me EXCEPT !.pc = "label"]]
            ELSE /\ UNCHANGED deployments
                 /\ procs' = [procs EXCEPT ![p] = [me EXCEPT !.pc = "done", !.resp = Panicked]]
    /\ UNCHANGED <<configmaps, services, uuids, probe>>

\* handlers::start_watcher: the target_status patch of the Ready branch; its result is unwrapped
handlers_start_watcher_label(p) ==
    /\ procs[p].op = "handlers::start_watcher" /\ procs[p].pc = "label"
    /\ \E ok \in BOOLEAN :
         LET id == procs[p].id
             me == [procs[p] EXCEPT !.calls = Append(@, "patch(target_status=Running)")]
         IN IF ok /\ id \in DOMAIN deployments
            THEN /\ patch_target_status(id, "Running")
                 /\ procs' = [procs EXCEPT ![p] = [me EXCEPT !.pc = "done", !.resp = Reply(200, "Watcher is starting")]]
            ELSE /\ UNCHANGED deployments
                 /\ procs' = [procs EXCEPT ![p] = [me EXCEPT !.pc = "done", !.resp = Panicked]]
    /\ UNCHANGED <<configmaps, services, uuids, probe>>

\* handlers::stop_watcher: the match on the derived status; only Running goes on to the platform calls
handlers_stop_watcher_match(st) ==
    CASE st = "Ready" -> [pc |-> "done", resp |-> Reply(200, "Watcher is already stopped")]
      [] st = "Pending" -> [pc |-> "done", resp |-> Reply(409, "Watcher is currently updating")]
      [] st = "Error"   -> [pc |-> "done", resp |-> Reply(406, "Watcher in error state cannot be set to stopped")]
      [] st = "Running"   -> [pc |-> "scale", resp |-> NoReply]
      [] OTHER          -> [pc |-> "done", resp |-> Panicked]

\* handlers::stop_watcher: fetch the Workload, derive its status, apply the guard
handlers_stop_watcher(p, id) ==
    /\ Free(p)
    /\ \E ok \in BOOLEAN :
         LET me == Begin("handlers::stop_watcher", id)
             got == api_get(deployments, id, ok)
             st == IF got = None THEN "unfetched" ELSE WatcherStatus_get_watcher_status(got[1])
             m == handlers_stop_watcher_match(st)
         IN procs' = [procs EXCEPT ![p] =
                IF got = None
                THEN [me EXCEPT !.st = st, !.pc = "done", !.resp = Reply(404, "")]
                ELSE [me EXCEPT !.st = st, !.pc = m.pc, !.resp = m.resp]]
    /\ UNCHANGED <<deployments, configmaps, services, uuids, probe>>

\* handlers::stop_watcher: the scale call of the Running branch; its result is unwrapped
handlers_stop_watcher_scale(p) ==
    /\ procs[p].op = "handlers::stop_watcher" /\ procs[p].pc = "scale"
    /\ \E ok \in BOOLEAN :
         LET id == procs[p].id
             me == [procs[p] EXCEPT !.calls = Append(@, "patch_scale(replicas=0)")]
         IN IF ok /\ id \in DOMAIN deployments
            THEN /\ patch_scale(id, 0)
                 /\ procs' = [procs EXCEPT ![p] = [me EXCEPT !.pc = "label"]]
            ELSE /\ UNCHANGED deployments
                 /\ procs' = [procs EXCEPT ![p] = [me EXCEPT !.pc = "done", !.resp = Panicked]]
    /\ UNCHANGED <<configmaps, services, uuids, probe>>

\* handlers::stop_watcher: the target_status patch of the Running branch; its result is unwrapped
handlers_stop_watcher_label(p) ==
    /\ procs[p].op = "handlers::stop_watcher" /\ procs[p].pc = "label"
    /\ \E ok \in BOOLEAN :
         LET id == procs[p].id
             me == [procs[p] EXCEPT !.calls = Append(@, "patch(target_status=Ready)")]
         IN IF ok /\ id \in DOMAIN deployments
            THEN /\ patch_target_status(id, "Ready")
                 /\ procs' = [procs EXCEPT ![p] = [me EXCEPT !.pc = "done", !.resp = Reply(200, "Watcher is stopping")]]
            ELSE /\ UNCHANGED deployments
                 /\ procs' = [procs EXCEPT ![p] = [me EXCEPT !.pc = "done", !.resp = Panicked]]
    /\ UNCHANGED <<configmaps, services, uuids, probe>>

----------------------------------------------------------------------------
(* templates.rs: what the resource templates build *)

\* templates::container_spec(id, ingest_port)
container_spec(id, port) == [watcher |-> id, port |-> port, release |-> "current"]

\* templates::build_deployment: replicas 0, declared intent Ready, nothing observed yet
build_deployment(id, port) ==
    [name |-> Some(deployment_name(id)),
     labels |-> Some([watcher_id |-> id, target_status |-> to_label("Ready")]),
     replicas |-> 0,
     status |-> None,
     containers |-> container_spec(id, port)]

\* templates::build_configmap: the serialised Watcher under "watcher.json"
build_configmap(id, watcher) == watcher

\* templates::build_service
build_service(id, port) == [watcher_id |-> id, port |-> port]

----------------------------------------------------------------------------
(* handlers::upgrade_watcher *)

\* fault: an upgrade refused only while the Watcher runs
must_be_stopped_running_only(st) == st = "Running"

\* fault: a patch that applies the whole Deployment template, replicas included
patch_containers_whole_template(id, spec) ==
    deployments' = [deployments EXCEPT ![id].containers = spec, ![id].replicas = 0]

\* `watcher_status != Status::Ready`: the upgrade is refused
must_be_stopped(st) == st # "Ready"

\* Api::patch(name, {"spec": {"template": {"spec": {"containers": [..]}}}})
patch_containers(id, spec) ==
    deployments' = [deployments EXCEPT ![id].containers = spec]

\* fetch the Workload
upgrade_watcher(p, id) ==
    /\ Free(p)
    /\ \E ok \in BOOLEAN :
         LET me == Begin("handlers::upgrade_watcher", id)
             got == api_get(deployments, id, ok)
         IN procs' = [procs EXCEPT ![p] =
                IF got = None
                THEN [me EXCEPT !.pc = "done", !.st = "unfetched", !.resp = Reply(404, "")]
                ELSE [me EXCEPT !.pc = "get_configmap",
                                !.st = WatcherStatus_get_watcher_status(got[1])]]
    /\ UNCHANGED <<deployments, configmaps, services, uuids, probe>>

\* fetch the Config, then the guard on the status of the Workload fetched before
upgrade_watcher_configmap(p) ==
    /\ procs[p].op = "handlers::upgrade_watcher" /\ procs[p].pc = "get_configmap"
    /\ \E ok \in BOOLEAN :
         LET me == procs[p]
             got == api_get(configmaps, me.id, ok)
         IN procs' = [procs EXCEPT ![p] =
                CASE got = None -> [me EXCEPT !.pc = "done", !.resp = Reply(404, "")]
                  [] got # None /\ me.st = PANIC ->
                        [me EXCEPT !.pc = "done", !.resp = Panicked]
                  [] got # None /\ me.st # PANIC /\ must_be_stopped(me.st) ->
                        [me EXCEPT !.pc = "done", !.w = Some(got[1]),
                            !.resp = Reply(400, "The Watcher must be stopped before the upgrade can be applied")]
                  [] OTHER ->
                        [me EXCEPT !.pc = "patch",
                            !.w = Some([got[1] EXCEPT !.status = Some(me.st)])]]
    /\ UNCHANGED <<deployments, configmaps, services, uuids, probe>>

\* patch spec.template.spec.containers of the Workload
upgrade_watcher_patch(p) ==
    /\ procs[p].op = "handlers::upgrade_watcher" /\ procs[p].pc = "patch"
    /\ \E ok \in BOOLEAN :
         LET id == procs[p].id
             watcher == procs[p].w[1]
             me == [procs[p] EXCEPT !.calls = Append(@, "patch(containers)")]
         IN IF ok /\ id \in DOMAIN deployments
            THEN /\ patch_containers(id, container_spec(id, watcher.ingest_port))
                 /\ procs' = [procs EXCEPT ![p] =
                        [me EXCEPT !.pc = "done", !.resp = ReplyWatcher(200, watcher)]]
            ELSE /\ UNCHANGED deployments
                 /\ procs' = [procs EXCEPT ![p] =
                        [me EXCEPT !.pc = "done",
                            !.resp = Reply(500, "Error while calling Kubernetes API")]]
    /\ UNCHANGED <<configmaps, services, uuids, probe>>

----------------------------------------------------------------------------
(* handlers::create_watcher *)

\* Uuid::new_v4(): an identifier no resource carries
new_v4 == ExistingId + uuids + 1

\* the Watcher specifications a caller may post: with or without an id
PostedWatchers ==
    [id : {None, Some(ExistingId)}, ingest_port : Ports, status : {None},
     status_description : {None}, ingest_ip : {None}]

\* `watcher.id = Some(new_id.clone())`: whatever id was posted is overwritten
with_new_id(posted, new_id) == [posted EXCEPT !.id = Some(new_id)]

\* fault: a creation that reports the status derived from the new Workload
as_created_derived(watcher) ==
    [watcher EXCEPT
        !.status = Some(IF watcher.id[1] \in DOMAIN deployments
                        THEN WatcherStatus_get_watcher_status(deployments[watcher.id[1]])
                        ELSE "Error"),
        !.ingest_ip = None]

\* `watcher.status = Some(Status::Pending); watcher.source.ingest_ip = None`
as_created(watcher) == [watcher EXCEPT !.status = Some("Pending"), !.ingest_ip = None]

\* generate the id, create the ConfigMap; the result is unwrapped
create_watcher(p) ==
    /\ Free(p)
    /\ uuids < MaxCreates
    /\ \E posted \in PostedWatchers, ok \in BOOLEAN :
         LET new_id == new_v4
             watcher == with_new_id(posted, new_id)
             me == [Begin("handlers::create_watcher", new_id) EXCEPT
                        !.w = Some(watcher), !.calls = <<"create(ConfigMap)">>]
         IN IF ok
            THEN /\ configmaps' = Put(configmaps, new_id, build_configmap(new_id, watcher))
                 /\ procs' = [procs EXCEPT ![p] = [me EXCEPT !.pc = "create_deployment"]]
            ELSE /\ UNCHANGED configmaps
                 /\ procs' = [procs EXCEPT ![p] = [me EXCEPT !.pc = "done", !.resp = Panicked]]
    /\ uuids' = uuids + 1
    /\ UNCHANGED <<deployments, services, probe>>

\* fault: a creation that removes the Config again when the Deployment fails
create_watcher_deployment_rollback(p) ==
    /\ procs[p].op = "handlers::create_watcher" /\ procs[p].pc = "create_deployment"
    /\ \E ok \in BOOLEAN :
         LET id == procs[p].id
             watcher == procs[p].w[1]
             me == [procs[p] EXCEPT !.calls = Append(@, "create(Deployment)")]
         IN IF ok /\ id \notin DOMAIN deployments
            THEN /\ deployments' = Put(deployments, id, build_deployment(id, watcher.ingest_port))
                 /\ UNCHANGED configmaps
                 /\ procs' = [procs EXCEPT ![p] = [me EXCEPT !.pc = "create_service"]]
            ELSE /\ UNCHANGED deployments
                 /\ configmaps' = Remove(configmaps, id)
                 /\ procs' = [procs EXCEPT ![p] = [me EXCEPT !.pc = "done", !.resp = Panicked]]
    /\ UNCHANGED <<services, uuids, probe>>

\* create the Deployment; the result is unwrapped
create_watcher_deployment(p) ==
    /\ procs[p].op = "handlers::create_watcher" /\ procs[p].pc = "create_deployment"
    /\ \E ok \in BOOLEAN :
         LET id == procs[p].id
             watcher == procs[p].w[1]
             me == [procs[p] EXCEPT !.calls = Append(@, "create(Deployment)")]
         IN IF ok /\ id \notin DOMAIN deployments
            THEN /\ deployments' = Put(deployments, id, build_deployment(id, watcher.ingest_port))
                 /\ procs' = [procs EXCEPT ![p] = [me EXCEPT !.pc = "create_service"]]
            ELSE /\ UNCHANGED deployments
                 /\ procs' = [procs EXCEPT ![p] = [me EXCEPT !.pc = "done", !.resp = Panicked]]
    /\ UNCHANGED <<configmaps, services, uuids, probe>>

\* create the Service, then reply with status Pending and no ingest address
create_watcher_service(p) ==
    /\ procs[p].op = "handlers::create_watcher" /\ procs[p].pc = "create_service"
    /\ \E ok \in BOOLEAN :
         LET id == procs[p].id
             watcher == procs[p].w[1]
             me == [procs[p] EXCEPT !.calls = Append(@, "create(Service)")]
             created == as_created(watcher)
         IN IF ok /\ id \notin DOMAIN services
            THEN /\ services' = Put(services, id, build_service(id, watcher.ingest_port))
                 /\ procs' = [procs EXCEPT ![p] =
                        [me EXCEPT !.pc = "done", !.w = Some(created),
                                   !.resp = ReplyWatcher(201, created)]]
            ELSE /\ UNCHANGED services
                 /\ procs' = [procs EXCEPT ![p] = [me EXCEPT !.pc = "done", !.resp = Panicked]]
    /\ UNCHANGED <<deployments, configmaps, uuids, probe>>


----------------------------------------------------------------------------
(* handlers::get_watcher *)

\* what a pod list may hold for a Watcher: no pod, or a first pod whose
\* status, container statuses, state, waiting reason or message may be absent
PodLists ==
    {<<>>,
     <<[status |-> None]>>,
     <<[status |-> Some([container_statuses |-> None])]>>,
     <<[status |-> Some([container_statuses |-> Some(<<>>)])]>>,
     <<[status |-> Some([container_statuses |-> Some(<<[state |-> None]>>)])]>>,
     <<[status |-> Some([container_statuses |-> Some(<<[state |-> Some([waiting |-> None])]>>)])]>>,
     <<[status |-> Some([container_statuses |->
            Some(<<[state |-> Some([waiting |-> Some([message |-> None])])]>>)])]>>,
     <<[status |-> Some([container_statuses |->
            Some(<<[state |-> Some([waiting |-> Some([message |-> Some("ImagePullBackOff")])])]>>)])]>>}

\* slice::first
First(items) == IF Len(items) = 0 THEN None ELSE Some(items[1])

\* the waiting message of the first container of the first pod, if every level is there
waiting_message(pods) ==
    LET p1 == First(pods)
        ps == IF p1 = None THEN None ELSE p1[1].status
        css == IF ps = None THEN None ELSE ps[1].container_statuses
        cs1 == IF css = None THEN None ELSE First(css[1])
        state == IF cs1 = None THEN None ELSE cs1[1].state
        csw == IF state = None THEN None ELSE state[1].waiting
    IN IF csw = None THEN None ELSE csw[1].message

\* what the load balancer status of a Service may hold
ServiceStatuses ==
    {None,
     Some([load_balancer |-> None]),
     Some([load_balancer |-> Some([ingress |-> None])]),
     Some([load_balancer |-> Some([ingress |-> Some(<<>>)])]),
     Some([load_balancer |-> Some([ingress |-> Some(<<[hostname |-> None, ip |-> None]>>)])]),
     Some([load_balancer |-> Some([ingress |-> Some(<<[hostname |-> None, ip |-> Some("10.0.0.7")]>>)])]),
     Some([load_balancer |-> Some([ingress |->
            Some(<<[hostname |-> Some("lb.example"), ip |-> Some("10.0.0.7")]>>)])])}

\* lb.hostname.or(lb.ip) of the first ingress, if every level is there
ingest_address(status) ==
    LET lbs == IF status = None THEN None ELSE status[1].load_balancer
        ing == IF lbs = None THEN None ELSE lbs[1].ingress
        lb == IF ing = None THEN None ELSE First(ing[1])
    IN IF lb = None THEN None
       ELSE IF lb[1].hostname # None THEN lb[1].hostname ELSE lb[1].ip

\* fault: a get that answers 200 without a Watcher when the Workload is missing
get_watcher_absent_ok(p, id) ==
    /\ Free(p)
    /\ \E ok \in BOOLEAN :
         LET me == Begin("handlers::get_watcher", id)
             got == api_get(deployments, id, ok)
         IN procs' = [procs EXCEPT ![p] =
                IF got = None
                THEN [me EXCEPT !.pc = "done", !.st = "unfetched", !.resp = Reply(200, "")]
                ELSE [me EXCEPT !.pc = "get_configmap",
                                !.st = WatcherStatus_get_watcher_status(got[1])]]
    /\ UNCHANGED <<deployments, configmaps, services, uuids, probe>>

\* fetch the Workload
get_watcher(p, id) ==
    /\ Free(p)
    /\ \E ok \in BOOLEAN :
         LET me == Begin("handlers::get_watcher", id)
             got == api_get(deployments, id, ok)
         IN procs' = [procs EXCEPT ![p] =
                IF got = None
                THEN [me EXCEPT !.pc = "done", !.st = "unfetched", !.resp = Reply(404, "")]
                ELSE [me EXCEPT !.pc = "get_configmap",
                                !.st = WatcherStatus_get_watcher_status(got[1])]]
    /\ UNCHANGED <<deployments, configmaps, services, uuids, probe>>

\* fetch the Config and attach the status derived from the Workload
get_watcher_configmap(p) ==
    /\ procs[p].op = "handlers::get_watcher" /\ procs[p].pc = "get_configmap"
    /\ \E ok \in BOOLEAN :
         LET me == procs[p]
             got == api_get(configmaps, me.id, ok)
             w == [got[1] EXCEPT !.status = Some(me.st), !.status_description = None,
                                 !.ingest_ip = None]
         IN procs' = [procs EXCEPT ![p] =
                CASE got = None -> [me EXCEPT !.pc = "done", !.resp = Reply(404, "")]
                  [] got # None /\ me.st = PANIC ->
                        [me EXCEPT !.pc = "done", !.resp = Panicked]
                  [] got # None /\ me.st = "Pending" ->
                        [me EXCEPT !.pc = "list_pods", !.w = Some(w)]
                  [] got # None /\ me.st = "Error" ->
                        [me EXCEPT !.pc = "done", !.w = Some(w), !.resp = ReplyWatcher(200, w)]
                  [] OTHER -> [me EXCEPT !.pc = "get_service", !.w = Some(w)]]
    /\ UNCHANGED <<deployments, configmaps, services, uuids, probe>>

\* status Pending: list the pods (unwrapped) and take the waiting message
get_watcher_pods(p) ==
    /\ procs[p].op = "handlers::get_watcher" /\ procs[p].pc = "list_pods"
    /\ \E ok \in BOOLEAN, pods \in PodLists :
         LET me == procs[p]
         IN procs' = [procs EXCEPT ![p] =
                IF ok
                THEN [me EXCEPT !.pc = "get_service",
                         !.w = Some([me.w[1] EXCEPT !.status_description = waiting_message(pods)])]
                ELSE [me EXCEPT !.pc = "done", !.resp = Panicked]]
    /\ UNCHANGED <<deployments, configmaps, services, uuids, probe>>

\* status not Error: read the Service's status (unwrapped) for the ingest address
get_watcher_service(p) ==
    /\ procs[p].op = "handlers::get_watcher" /\ procs[p].pc = "get_service"
    /\ \E ok \in BOOLEAN, status \in ServiceStatuses :
         LET me == procs[p]
             w == [me.w[1] EXCEPT !.ingest_ip = ingest_address(status)]
         IN procs' = [procs EXCEPT ![p] =
                IF ok /\ me.id \in DOMAIN services
                THEN [me EXCEPT !.pc = "done", !.w = Some(w), !.resp = ReplyWatcher(200, w)]
                ELSE [me EXCEPT !.pc = "done", !.resp = Panicked]]
    /\ UNCHANGED <<deployments, configmaps, services, uuids, probe>>

----------------------------------------------------------------------------
(* handlers::get_video_frame *)

\* a response without body or headers: `*resp.status_mut() = code`
FrameReply(code) == [code |-> code, headers |-> <<>>, body |-> "empty"]

\* the response carrying the frame: default status 200, image/png, no-store
ImageReply ==
    [code |-> 200,
     headers |-> [content_type |-> "image/png", cache_control |-> "no-store"],
     body |-> "image"]

\* the pod IPs a pod list may yield: no pod or no IP yet, or an address
PodIps == {None, Some("10.0.0.7")}

\* `vec![watcher.source.ingest_port, 3030]`: the ports tried, in order
frame_ports(ingest_port) == <<ingest_port, 3030>>

\* the downstream call `http_client.get("http://{pod_ip}:{port}/latest_frame")`
frame_call(port) == "GET /latest_frame on port " \o ToString(port)

\* what a downstream call may come to: `send` fails, the pod answers with a
\* non-success status, or it answers with success
DownstreamResults == {"transport_error", "error_status", "success"}

\* fetch the Config; Err is answered with 404
get_video_frame(p, id) ==
    /\ Free(p)
    /\ \E ok \in BOOLEAN :
         LET me == Begin("handlers::get_video_frame", id)
             got == api_get(configmaps, id, ok)
         IN procs' = [procs EXCEPT ![p] =
                IF got = None
                THEN [me EXCEPT !.pc = "done", !.st = "unfetched", !.resp = FrameReply(404)]
                ELSE [me EXCEPT !.pc = "get_deployment", !.st = "unfetched", !.w = got]]
    /\ UNCHANGED <<deployments, configmaps, services, uuids, probe>>

\* fetch the Workload (Err is answered with 404) and require status Running
get_video_frame_deployment(p) ==
    /\ procs[p].op = "handlers::get_video_frame" /\ procs[p].pc = "get_deployment"
    /\ \E ok \in BOOLEAN :
         LET me == procs[p]
             got == api_get(deployments, me.id, ok)
             st == IF got = None THEN "unfetched"
                   ELSE WatcherStatus_get_watcher_status(got[1])
         IN procs' = [procs EXCEPT ![p] =
                CASE got = None -> [me EXCEPT !.pc = "done", !.resp = FrameReply(404)]
                  [] got # None /\ st = PANIC ->
                        [me EXCEPT !.pc = "done", !.st = st, !.resp = Panicked]
                  [] got # None /\ st \notin {PANIC, "Running"} ->
                        [me EXCEPT !.pc = "done", !.st = st, !.resp = FrameReply(406)]
                  [] OTHER -> [me EXCEPT !.pc = "list_pods", !.st = st]]
    /\ UNCHANGED <<deployments, configmaps, services, uuids, probe>>

\* list the pods (unwrapped) and take the first pod's IP; none is answered with 417
get_video_frame_pods(p) ==
    /\ procs[p].op = "handlers::get_video_frame" /\ procs[p].pc = "list_pods"
    /\ \E ok \in BOOLEAN, pod_ip \in PodIps :
         LET me == procs[p]
         IN procs' = [procs EXCEPT ![p] =
                IF ~ok THEN [me EXCEPT !.pc = "done", !.resp = Panicked]
                ELSE IF pod_ip = None THEN [me EXCEPT !.pc = "done", !.resp = FrameReply(417)]
                ELSE [me EXCEPT !.pc = "call"]]
    /\ UNCHANGED <<deployments, configmaps, services, uuids, probe>>

\* one turn of `for port in ...`: call the pod on the next port
get_video_frame_call(p) ==
    /\ procs[p].op = "handlers::get_video_frame" /\ procs[p].pc = "call"
    /\ \E result \in DownstreamResults :
         LET ports == frame_ports(procs[p].w[1].ingest_port)
             port == ports[Len(procs[p].calls) + 1]
             me == [procs[p] EXCEPT !.calls = Append(@, frame_call(port))]
         IN procs' = [procs EXCEPT ![p] =
                CASE result = "transport_error" ->
                        [me EXCEPT !.pc = "done", !.resp = FrameReply(417)]
                  [] result = "success" -> [me EXCEPT !.pc = "read_body"]
                  [] result = "error_status" ->
                        IF Len(me.calls) < Len(ports)
                        THEN me
                        ELSE [me EXCEPT !.pc = "done", !.resp = FrameReply(417)]]
    /\ UNCHANGED <<deployments, configmaps, services, uuids, probe>>

\* `image_response.bytes().await.unwrap()`: read the image and return it
get_video_frame_body(p) ==
    /\ procs[p].op = "handlers::get_video_frame" /\ procs[p].pc = "read_body"
    /\ \E ok \in BOOLEAN :
         procs' = [procs EXCEPT ![p] =
                IF ok THEN [procs[p] EXCEPT !.pc = "done", !.resp = ImageReply]
                ELSE [procs[p] EXCEPT !.pc = "done", !.resp = Panicked]]
    /\ UNCHANGED <<deployments, configmaps, services, uuids, probe>>

----------------------------------------------------------------------------
(* handlers::list_watchers *)

\* the label selector "app=hawkeye,watcher_id": the Workloads that carry the label
selected(resources) ==
    {id \in DOMAIN resources :
        /\ resources[id].labels # None
        /\ "watcher_id" \in DOMAIN resources[id].labels[1]}

\* fault: an index that records Running for every Workload it reads
deployments_index_all_running(resources) ==
    [id \in selected(resources) |-> "Running"]

\* deployments_index: watcher_id label -> status derived from that Workload
deployments_index(resources) ==
    [id \in selected(resources) |-> WatcherStatus_get_watcher_status(resources[id])]

\* fault: a Config without a Workload in the index is reported Pending
calculated_status_pending(index, watcher) ==
    IF watcher.id # None /\ watcher.id[1] \in DOMAIN index
    THEN index[watcher.id[1]] ELSE "Pending"

\* the status list attaches to a Config's Watcher: the index entry of its id
\* (an absent id looks up "undefined", which no Workload carries), else Error
calculated_status(index, watcher) ==
    IF watcher.id # None /\ watcher.id[1] \in DOMAIN index
    THEN index[watcher.id[1]] ELSE "Error"

\* list the Workloads (unwrapped) and index their derived statuses
list_watchers(p) ==
    /\ Free(p)
    /\ \E ok \in BOOLEAN :
         LET me == Begin("handlers::list_watchers", 0)
             index == deployments_index(deployments)
         IN procs' = [procs EXCEPT ![p] =
                IF ok /\ \A id \in DOMAIN index : index[id] # PANIC
                THEN [me EXCEPT !.pc = "list_configmaps", !.index = index]
                ELSE [me EXCEPT !.pc = "done", !.resp = Panicked]]
    /\ UNCHANGED <<deployments, configmaps, services, uuids, probe>>

\* list the Configs (unwrapped): one Watcher per Config, with the indexed
\* status or Error, and no ingest address
list_watchers_configmaps(p) ==
    /\ procs[p].op = "handlers::list_watchers" /\ procs[p].pc = "list_configmaps"
    /\ \E ok \in BOOLEAN :
         LET me == procs[p]
             watchers == [c \in DOMAIN configmaps |->
                            [configmaps[c] EXCEPT
                                !.status = Some(calculated_status(me.index, configmaps[c])),
                                !.ingest_ip = None]]
         IN procs' = [procs EXCEPT ![p] =
                IF ok
                THEN [me EXCEPT !.pc = "done", !.resp = ReplyWatchers(watchers)]
                ELSE [me EXCEPT !.pc = "done", !.resp = Panicked]]
    /\ UNCHANGED <<deployments, configmaps, services, uuids, probe>>

----------------------------------------------------------------------------
(* handlers::delete_watcher *)

\* Api::delete: Ok when the call went through and the resource existed
api_delete(resources, id, ok) == ok /\ id \in DOMAIN resources

\* fault: a deletion that reports success whatever the Service delete returned
delete_reply_always_ok(deleted) == Reply(200, "Watcher has been deleted")

\* the match on the result of the Service delete
delete_reply(deleted) ==
    IF deleted THEN Reply(200, "Watcher has been deleted")
    ELSE Reply(404, "Watcher does not exist")

\* delete the Deployment; the result is dropped
delete_watcher(p, id) ==
    /\ Free(p)
    /\ \E ok \in BOOLEAN :
         /\ deployments' = IF api_delete(deployments, id, ok)
                           THEN Remove(deployments, id) ELSE deployments
         /\ procs' = [procs EXCEPT ![p] =
                [Begin("handlers::delete_watcher", id) EXCEPT
                    !.pc = "delete_configmap", !.calls = <<"delete(Deployment)">>]]
    /\ UNCHANGED <<configmaps, services, uuids, probe>>

\* delete the ConfigMap; the result is dropped
delete_watcher_configmap(p) ==
    /\ procs[p].op = "handlers::delete_watcher" /\ procs[p].pc = "delete_configmap"
    /\ \E ok \in BOOLEAN :
         /\ configmaps' = IF api_delete(configmaps, procs[p].id, ok)
                          THEN Remove(configmaps, procs[p].id) ELSE configmaps
         /\ procs' = [procs EXCEPT ![p] =
                [procs[p] EXCEPT !.pc = "delete_service",
                                 !.calls = Append(@, "delete(ConfigMap)")]]
    /\ UNCHANGED <<deployments, services, uuids, probe>>

\* delete the Service and reply by its result alone; `st` keeps why it failed
delete_watcher_service(p) ==
    /\ procs[p].op = "handlers::delete_watcher" /\ procs[p].pc = "delete_service"
    /\ \E ok \in BOOLEAN :
         LET id == procs[p].id
             deleted == api_delete(services, id, ok)
         IN /\ services' = IF deleted THEN Remove(services, id) ELSE services
            /\ procs' = [procs EXCEPT ![p] =
                   [procs[p] EXCEPT
                       !.pc = "done",
                       !.st = IF deleted THEN "deleted"
                              ELSE IF ok THEN "absent" ELSE "call_failed",
                       !.calls = Append(@, "delete(Service)"),
                       !.resp = delete_reply(deleted)]]
    /\ UNCHANGED <<deployments, configmaps, uuids, probe>>

----------------------------------------------------------------------------
(* The platform *)

\* the status block the Deployment controller reports once the available
\* replicas match spec.replicas (a count of 0 is omitted from the status)
reported_status(replicas) ==
    Some([available_replicas |-> IF replicas = 0 THEN None ELSE Some(replicas)])

\* the platform brings a Workload's observed state in line with spec.replicas
deployment_controller ==
    /\ \E id \in DOMAIN deployments :
         /\ deployments[id].status # reported_status(deployments[id].replicas)
         /\ deployments' = [deployments EXCEPT ![id].status = reported_status(deployments[id].replicas)]
    /\ UNCHANGED <<configmaps, services, uuids, procs, probe>>

----------------------------------------------------------------------------
(* The two resolvers called directly on any Deployment value *)

NoProbe == [deployment |-> None, backend |-> "none", handlers |-> "none"]

\* the Deployment values a caller may pass: any name, labels, replicas and status
ProbeDeployments ==
    [name : {None, Some(deployment_name(ExistingId))},
     labels : LabelMaps(ExistingId),
     replicas : {0, 1},
     status : StatusBlocks(MaxAvailable),
     containers : {previous_container_spec(ExistingId, 8080)}]

call_get_watcher_status ==
    /\ probe.deployment # None
    /\ probe.backend = "none"
    /\ probe' = [probe EXCEPT
            !.backend = get_watcher_status(probe.deployment[1]),
            !.handlers = WatcherStatus_get_watcher_status(probe.deployment[1])]
    /\ UNCHANGED <<deployments, configmaps, services, uuids, procs>>

----------------------------------------------------------------------------
(* Specifications *)

Init ==
    /\ deployments \in {<<>>} \cup {[i \in {ExistingId} |-> d] : d \in InitialDeployments(ExistingId)}
    /\ configmaps \in {<<>>, [i \in {ExistingId} |-> WatcherRecord(ExistingId, 8080)]}
    /\ services \in {<<>>, [i \in {ExistingId} |-> build_service(ExistingId, 8080)]}
    /\ uuids = 0
    /\ procs = [p \in Procs |-> Idle]
    /\ probe = NoProbe

\* a request on Watcher `id` taking its next step in slot p
Request(p, id) ==
    \/ backend_start_watcher(p, id) \/ backend_start_watcher_scale(p)
    \/ backend_start_watcher_label(p)
    \/ backend_stop_watcher(p, id) \/ backend_stop_watcher_scale(p)
    \/ backend_stop_watcher_label(p)
    \/ handlers_start_watcher(p, id) \/ handlers_start_watcher_scale(p)
    \/ handlers_start_watcher_label(p)
    \/ handlers_stop_watcher(p, id) \/ handlers_stop_watcher_scale(p)
    \/ handlers_stop_watcher_label(p)
    \/ upgrade_watcher(p, id) \/ upgrade_watcher_configmap(p) \/ upgrade_watcher_patch(p)
    \/ get_watcher(p, id) \/ get_watcher_configmap(p) \/ get_watcher_pods(p)
    \/ get_watcher_service(p)

\* requests on the Watcher the cluster holds, in any state the platform may
\* hold it in, interleaved with each other and with the platform
Next ==
    \/ \E p \in Procs : Request(p, ExistingId)
    \/ deployment_controller

Spec == Init /\ [][Next]_vars

\* the same requests served one at a time: a request begins only when no
\* other is in flight (the platform still acts between any two calls)
SerialNext ==
    \/ \E p \in Procs :
        /\ \A q \in Procs \ {p} : Free(q)
        /\ Request(p, ExistingId)
    \/ deployment_controller

SerialSpec == Init /\ [][SerialNext]_vars

\* the cluster before the first request of a lifecycle run: it holds no Watcher,
\* or the Watcher an earlier create provisioned, either still stopped or started
\* since and not yet available
LifecycleInit ==
    /\ \/ /\ deployments = <<>>
          /\ configmaps = <<>>
          /\ services = <<>>
       \/ /\ \E started \in BOOLEAN :
                deployments = [i \in {ExistingId} |->
                    [build_deployment(ExistingId, 8080) EXCEPT
                        !.status = reported_status(0),
                        !.replicas = IF started THEN 1 ELSE 0,
                        !.labels = IF started THEN merge_label(@, to_label("Running")) ELSE @]]
          /\ configmaps = [i \in {ExistingId} |-> WatcherRecord(ExistingId, 8080)]
          /\ services = [i \in {ExistingId} |-> build_service(ExistingId, 8080)]
    /\ uuids = 0
    /\ procs = [p \in Procs |-> Idle]
    /\ probe = NoProbe

\* creations, interleaved with reads of any Watcher and with the platform
LifecycleNext ==
    \/ \E p \in Procs :
        \/ create_watcher(p) \/ create_watcher_deployment(p) \/ create_watcher_service(p)
        \/ \E id \in Ids :
            \/ get_watcher(p, id) \/ get_watcher_configmap(p) \/ get_watcher_pods(p)
            \/ get_watcher_service(p)
    \/ deployment_controller

LifecycleSpec == LifecycleInit /\ [][LifecycleNext]_vars

\* a request of the registry: a creation, a deletion or a listing taking a step
RegistryRequest(p) ==
    \/ create_watcher(p) \/ create_watcher_deployment(p) \/ create_watcher_service(p)
    \/ list_watchers(p) \/ list_watchers_configmaps(p)
    \/ \E id \in Ids :
        \/ delete_watcher(p, id) \/ delete_watcher_configmap(p)
        \/ delete_watcher_service(p)

\* creations, deletions and listings, interleaved with each other and the platform
RegistryNext ==
    \/ \E p \in Procs : RegistryRequest(p)
    \/ deployment_controller

RegistrySpec == LifecycleInit /\ [][RegistryNext]_vars

\* the same requests served one at a time
SerialRegistryNext ==
    \/ \E p \in Procs :
        /\ \A q \in Procs \ {p} : Free(q)
        /\ RegistryRequest(p)
    \/ deployment_controller

SerialRegistrySpec == LifecycleInit /\ [][SerialRegistryNext]_vars

\* a platform call of the request in slot p failed: its fetch or a patch
Failed(p) == procs[p].st = "unfetched" \/ procs[p].resp = Panicked

\* the Watcher at rest: stopped (replicas 0, target Ready, none available) or,
\* if `running`, started (replicas 1, target Running, one available)
Settled(id, running) ==
    {d \in InitialDeployments(id) :
        /\ d.replicas = (IF running THEN 1 ELSE 0)
        /\ d.labels = Some([watcher_id |-> id,
                            target_status |-> to_label(IF running THEN "Running" ELSE "Ready")])
        /\ d.status \in {reported_status(d.replicas),
                         Some([available_replicas |-> Some(d.replicas)])}}

\* a start request on `id` taking its next step in slot p
StartRequest(p, id) ==
    \/ backend_start_watcher(p, id) \/ backend_start_watcher_scale(p)
    \/ backend_start_watcher_label(p)
    \/ handlers_start_watcher(p, id) \/ handlers_start_watcher_scale(p)
    \/ handlers_start_watcher_label(p)

\* a stop request on `id` taking its next step in slot p
StopRequest(p, id) ==
    \/ backend_stop_watcher(p, id) \/ backend_stop_watcher_scale(p)
    \/ backend_stop_watcher_label(p)
    \/ handlers_stop_watcher(p, id) \/ handlers_stop_watcher_scale(p)
    \/ handlers_stop_watcher_label(p)

RaceInit(running) ==
    /\ deployments \in {[i \in {ExistingId} |-> d] : d \in Settled(ExistingId, running)}
    /\ configmaps = [i \in {ExistingId} |-> WatcherRecord(ExistingId, 8080)]
    /\ services = [i \in {ExistingId} |-> build_service(ExistingId, 8080)]
    /\ uuids = 0
    /\ procs = [p \in Procs |-> Idle]
    /\ probe = NoProbe

\* concurrent start calls on a stopped Watcher, interleaved at their awaits
\* with each other and with the platform; no request takes a step once a
\* platform call has failed
StartRaceInit == RaceInit(FALSE)

StartRaceNext ==
    \/ \E p \in Procs :
        /\ \A q \in Procs : ~Failed(q)
        /\ StartRequest(p, ExistingId)
    \/ deployment_controller

StartRaceSpec == StartRaceInit /\ [][StartRaceNext]_vars

\* concurrent start and stop calls on a Watcher at rest, interleaved at their
\* awaits with each other and with the platform; no request takes a step once
\* a platform call has failed
GuardedRaceInit == \E running \in BOOLEAN : RaceInit(running)

GuardedRaceNext ==
    \/ \E p \in Procs :
        /\ \A q \in Procs : ~Failed(q)
        /\ StartRequest(p, ExistingId) \/ StopRequest(p, ExistingId)
    \/ deployment_controller

GuardedRaceSpec == GuardedRaceInit /\ [][GuardedRaceNext]_vars

\* a latest-frame request on `id` taking its next step in slot p
FrameRequest(p, id) ==
    \/ get_video_frame(p, id) \/ get_video_frame_deployment(p)
    \/ get_video_frame_pods(p) \/ get_video_frame_call(p) \/ get_video_frame_body(p)

\* latest-frame requests on the Watcher the cluster holds, in any state the
\* platform may hold it in, interleaved with each other and with the platform
FrameNext ==
    \/ \E p \in Procs : FrameRequest(p, ExistingId)
    \/ deployment_controller

FrameSpec == Init /\ [][FrameNext]_vars

\* every request on one Watcher but its creation: the Watcher at rest is
\* deleted, read, listed, started, stopped and upgraded by requests served
\* one at a time, with the platform acting in between; the deletions are
\* served in the first slot and the other requests in the remaining ones
AfterDeleteInit == \E running \in BOOLEAN : RaceInit(running)

AfterDeleteNext ==
    \/ \E p \in Procs :
        /\ \A q \in Procs \ {p} : Free(q)
        /\ \/ /\ p = 1
              /\ \/ delete_watcher(p, ExistingId) \/ delete_watcher_configmap(p)
                 \/ delete_watcher_service(p)
           \/ /\ p # 1
              /\ \/ Request(p, ExistingId)
                 \/ FrameRequest(p, ExistingId)
                 \/ list_watchers(p) \/ list_watchers_configmaps(p)
    \/ deployment_controller

AfterDeleteSpec == AfterDeleteInit /\ [][AfterDeleteNext]_vars

\* one guarded operation repeated on a Watcher at rest: once a start has been
\* requested no stop is, and the other way round; the calls interleave at
\* their awaits with each other and with the platform, which eventually
\* reports the available replicas of the requested count
SettleInit == \E running \in BOOLEAN : RaceInit(running)

SettleNext ==
    \/ \E p \in Procs :
        \/ /\ \A q \in Procs : procs[q].op \in {"none", "backend::start_watcher", "handlers::start_watcher"}
           /\ StartRequest(p, ExistingId)
        \/ /\ \A q \in Procs : procs[q].op \in {"none", "backend::stop_watcher", "handlers::stop_watcher"}
           /\ StopRequest(p, ExistingId)
    \/ deployment_controller

SettleSpec == SettleInit /\ [][SettleNext]_vars /\ WF_vars(deployment_controller)

\* an upgrade request on `id` taking its next step in slot p
UpgradeRequest(p, id) ==
    \/ upgrade_watcher(p, id) \/ upgrade_watcher_configmap(p) \/ upgrade_watcher_patch(p)

\* upgrade and start calls on a stopped Watcher, interleaved at their awaits
\* with each other and with the platform; no request takes a step once a
\* platform call has failed
UpgradeRaceInit == RaceInit(FALSE)

UpgradeRaceNext ==
    \/ \E p \in Procs :
        /\ \A q \in Procs : ~Failed(q)
        /\ UpgradeRequest(p, ExistingId) \/ StartRequest(p, ExistingId)
    \/ deployment_controller

UpgradeRaceSpec == UpgradeRaceInit /\ [][UpgradeRaceNext]_vars

\* the resolvers applied to one Deployment value, with no cluster and no request
ResolverInit ==
    /\ deployments = <<>>
    /\ configmaps = <<>>
    /\ services = <<>>
    /\ uuids = 0
    /\ procs = [p \in Procs |-> Idle]
    /\ probe \in [deployment : {Some(d) : d \in ProbeDeployments},
                  backend : {"none"}, handlers : {"none"}]

ResolverNext == call_get_watcher_status

ResolverSpec == ResolverInit /\ [][ResolverNext]_vars


----------------------------------------------------------------------------
(* Vocabulary of the properties *)

StartOps == {"backend::start_watcher", "handlers::start_watcher"}
StopOps == {"backend::stop_watcher", "handlers::stop_watcher"}
GuardedOps == StartOps \cup StopOps
\* the requests whose first step fetches the Workload
ReadOps == GuardedOps \cup {"handlers::upgrade_watcher", "handlers::get_watcher"}

\* this step is a step of the request in slot p
Acts(p) == procs'[p] # procs[p]
\* this step is the first step of a request in slot p
Begins(p) == Free(p) /\ Acts(p)
\* the request in slot p has ended with a reply (it did not panic)
Replied(p) == procs[p].pc = "done" /\ procs[p].resp # Panicked

\* the text of the target_status label of a Workload, if it has one
TargetText(d) ==
    IF d.labels = None THEN None
    ELSE IF "target_status" \in DOMAIN d.labels[1]
         THEN Some(d.labels[1].target_status) ELSE None

\* the available replicas a Workload reports, an unreported count being 0
Available(d) ==
    IF d.status[1].available_replicas = None THEN 0
    ELSE d.status[1].available_replicas[1]

\* observed state: Running iff available replicas > 0
Observed(d) == IF Available(d) > 0 THEN "Running" ELSE "Ready"

\* the outcome of a guarded request as the API reports it
Outcome(op, name) ==
    IF op \in {"backend::start_watcher", "backend::stop_watcher"}
    THEN Variant(name)
    ELSE CASE name = "NotFound" -> Reply(404, "")
           [] name = "AlreadyRunning" -> Reply(200, "Watcher is already running")
           [] name = "AlreadyStopped" -> Reply(200, "Watcher is already stopped")
           [] name = "CurrentlyUpdating" -> Reply(409, "Watcher is currently updating")
           [] name = "Starting" -> Reply(200, "Watcher is starting")
           [] name = "Stopping" -> Reply(200, "Watcher is stopping")
           [] name = "InErrorState" /\ op \in StartOps ->
                Reply(406, "Watcher in error state cannot be set to running")
           [] name = "InErrorState" /\ op \in StopOps ->
                Reply(406, "Watcher in error state cannot be set to stopped")

----------------------------------------------------------------------------
(* C1 *)

\* C1: a request that fetches a Workload whose target_status label is Ready
\* or Running and whose status block is present derives: the target itself
\* when the observed state (Running iff available replicas > 0, unreported
\* = 0) equals it, and Pending when the two differ, in either direction.
C1_ResolutionTable ==
    [][\A p \in Procs :
        (/\ Begins(p)
         /\ procs'[p].op \in ReadOps
         /\ procs'[p].st # "unfetched"
         /\ TargetText(deployments[procs'[p].id]) \in {Some("Ready"), Some("Running")}
         /\ deployments[procs'[p].id].status # None)
        => LET d == deployments[procs'[p].id]
               target == TargetText(d)[1]
           IN procs'[p].st = IF Observed(d) = target THEN target ELSE "Pending"]_vars

\* a start and a stop have each derived Pending, and the Workload has target
\* Running with no replica available
C1_Witness ==
    \E p, q \in Procs :
        /\ procs[p].pc = "done" /\ procs[p].st = "Pending" /\ procs[p].op \in StartOps
        /\ procs[q].pc = "done" /\ procs[q].st = "Pending" /\ procs[q].op \in StopOps
        /\ ExistingId \in DOMAIN deployments
        /\ TargetText(deployments[ExistingId]) = Some("Running")
        /\ deployments[ExistingId].status # None
        /\ Available(deployments[ExistingId]) = 0

----------------------------------------------------------------------------
(* C2 *)

\* C2: a request that fetches a Workload whose target_status label is missing
\* or is any text other than Ready or Running derives Error, whatever the
\* Workload's observed state is.
C2_MissingTargetIsError ==
    [][\A p \in Procs :
        (/\ Begins(p)
         /\ procs'[p].op \in ReadOps
         /\ procs'[p].st # "unfetched"
         /\ TargetText(deployments[procs'[p].id]) \notin {Some("Ready"), Some("Running")})
        => procs'[p].st = "Error"]_vars

\* a request derived Error from a Workload without the label and with an
\* available replica
C2_Witness ==
    \E p \in Procs :
        /\ procs[p].pc = "done" /\ procs[p].st = "Error" /\ procs[p].op \in StartOps
        /\ ExistingId \in DOMAIN deployments
        /\ TargetText(deployments[ExistingId]) = None
        /\ deployments[ExistingId].status # None
        /\ Available(deployments[ExistingId]) > 0

----------------------------------------------------------------------------
(* C3 *)

\* C3: called on any Deployment value, whatever its name, labels and status
\* hold, each resolver returns one of Ready, Running, Pending, Error.
C3_ResolverTotal ==
    probe.backend # "none" => probe.backend \in Status /\ probe.handlers \in Status

----------------------------------------------------------------------------
(* C4 *)

\* the outcome the start table gives for a derived status
StartOutcome(st) ==
    CASE st = "unfetched" -> "NotFound"
      [] st = "Running" -> "AlreadyRunning"
      [] st = "Pending" -> "CurrentlyUpdating"
      [] st = "Error" -> "InErrorState"
      [] st = "Ready" -> "Starting"

\* C4: a start request that has ended has ended with the outcome its derived
\* status determines: NotFound, AlreadyRunning, CurrentlyUpdating,
\* InErrorState or Starting.
C4_StartOutcome ==
    \A p \in Procs :
        (procs[p].op \in StartOps /\ procs[p].pc = "done")
        => procs[p].resp = Outcome(procs[p].op, StartOutcome(procs[p].st))

----------------------------------------------------------------------------
(* C5 *)

\* the outcome the stop table gives for a derived status
StopOutcome(st) ==
    CASE st = "unfetched" -> "NotFound"
      [] st = "Ready" -> "AlreadyStopped"
      [] st = "Pending" -> "CurrentlyUpdating"
      [] st = "Error" -> "InErrorState"
      [] st = "Running" -> "Stopping"

\* C5: a stop request ends with the outcome its derived status determines:
\* NotFound, AlreadyStopped, CurrentlyUpdating, InErrorState or Stopping, and
\* when it ends from Running the Workload has replicas 0 and target Ready.
C5_StopOutcome ==
    [][\A p \in Procs :
        (Acts(p) /\ procs'[p].op \in StopOps /\ procs'[p].pc = "done")
        => /\ procs'[p].resp = Outcome(procs'[p].op, StopOutcome(procs'[p].st))
           /\ procs'[p].st = "Running" =>
                /\ procs'[p].id \in DOMAIN deployments'
                /\ deployments'[procs'[p].id].replicas = 0
                /\ TargetText(deployments'[procs'[p].id]) = Some("Ready")]_vars


----------------------------------------------------------------------------
(* C6 *)

\* the request in record r took (or is in) the transition branch
InTransitionBranch(r) ==
    \/ r.op \in StartOps /\ r.st = "Ready"
    \/ r.op \in StopOps /\ r.st = "Running"

\* C6: a step of a start or stop request outside its transition branch (start
\* on Running, Pending, Error or not found; stop on Ready, Pending, Error or
\* not found) ends the request, has issued no mutating call and leaves the
\* Workloads, the Configs and the Endpoints unchanged.
C6_GuardsDoNotMutate ==
    [][\A p \in Procs :
        (Acts(p) /\ procs'[p].op \in GuardedOps /\ ~InTransitionBranch(procs'[p]))
        => /\ procs'[p].pc = "done"
           /\ procs'[p].calls = <<>>
           /\ UNCHANGED <<deployments, configmaps, services>>]_vars

\* a stop of a Watcher whose Workload could not be fetched, and a start
\* refused while a transition is pending, have ended without a call
C6_Witness ==
    \E p, q \in Procs :
        /\ procs[p].op \in StopOps /\ procs[p].pc = "done"
        /\ procs[p].st = "unfetched" /\ procs[p].calls = <<>>
        /\ procs[q].op \in StartOps /\ procs[q].pc = "done"
        /\ procs[q].st = "Pending" /\ procs[q].calls = <<>>

----------------------------------------------------------------------------
(* C7 *)

\* the Workload of `id` is as a start leaves it and no replica is available yet
StartedNotYetAvailable(id) ==
    /\ id \in DOMAIN deployments
    /\ deployments[id].replicas = 1
    /\ TargetText(deployments[id]) = Some("Running")
    /\ deployments[id].status # None
    /\ Available(deployments[id]) = 0

\* C7: with requests served one at a time, a start that derived Ready and
\* whose two platform calls succeeded replies Starting and leaves the Workload
\* with replicas 1 and target Running; and while the Workload is as that start
\* left it with no replica available, every request that fetches it derives
\* Pending, and a start or stop is refused with CurrentlyUpdating.
C7_StartThenPending ==
    [][\A p \in Procs :
        /\ (/\ Acts(p) /\ procs'[p].op \in StartOps /\ procs'[p].st = "Ready"
            /\ procs'[p].pc = "done" /\ procs'[p].resp # Panicked)
           => /\ procs'[p].resp = Outcome(procs'[p].op, "Starting")
              /\ procs'[p].id \in DOMAIN deployments'
              /\ deployments'[procs'[p].id].replicas = 1
              /\ TargetText(deployments'[procs'[p].id]) = Some("Running")
        /\ (/\ Begins(p) /\ procs'[p].op \in ReadOps /\ procs'[p].st # "unfetched"
            /\ StartedNotYetAvailable(procs'[p].id)
            /\ \E q \in Procs \ {p} :
                 /\ procs[q].op \in StartOps /\ procs[q].id = procs'[p].id
                 /\ procs[q].st = "Ready" /\ Replied(q))
           => /\ procs'[p].st = "Pending"
              /\ procs'[p].op \in GuardedOps =>
                    procs'[p].resp = Outcome(procs'[p].op, "CurrentlyUpdating")]_vars

\* a start from Ready has replied Starting, no replica is available yet, and a
\* later stop was refused with CurrentlyUpdating
C7_Witness ==
    \E p, q \in Procs :
        /\ procs[p].op = "handlers::start_watcher" /\ procs[p].st = "Ready"
        /\ procs[p].resp = Reply(200, "Watcher is starting")
        /\ StartedNotYetAvailable(ExistingId)
        /\ procs[q].op = "handlers::stop_watcher" /\ procs[q].st = "Pending"
        /\ procs[q].resp = Reply(409, "Watcher is currently updating")

----------------------------------------------------------------------------
(* C8 *)

\* C8: an upgrade ends with 404 when the Workload or the Config is missing or
\* cannot be fetched, and with 400 'must be stopped' when both were fetched
\* and the derived status is Running, Pending or Error; no step of a refused
\* upgrade issues a patch or changes a Workload.
C8_UpgradeGuard ==
    [][\A p \in Procs :
        (Acts(p) /\ procs'[p].op = "handlers::upgrade_watcher")
        => LET r == procs'[p]
           IN /\ (Free(p) /\ r.id \notin DOMAIN deployments)
                    => r.pc = "done" /\ r.resp = Reply(404, "")
              /\ (procs[p].pc = "get_configmap" /\ r.id \notin DOMAIN configmaps)
                    => r.pc = "done" /\ r.resp = Reply(404, "")
              /\ (procs[p].pc = "get_configmap" /\ r.st \in {"Running", "Pending", "Error"})
                    => /\ r.pc = "done"
                       /\ r.resp.code \in {400, 404}
                       /\ r.w # None <=> r.resp.code = 400
              /\ (r.pc = "done" /\ r.resp.code \in {400, 404})
                    => r.calls = <<>> /\ UNCHANGED deployments
              /\ r.st # "Ready" => r.pc \in {"get_configmap", "done"}]_vars

\* upgrades were refused with 400 on a running Watcher and with 404 on a
\* Watcher whose Workload exists and whose Config is missing
C8_Witness ==
    \E p, q \in Procs :
        /\ procs[p].op = "handlers::upgrade_watcher" /\ procs[p].pc = "done"
        /\ procs[p].st = "Running" /\ procs[p].resp.code = 400
        /\ procs[q].op = "handlers::upgrade_watcher" /\ procs[q].pc = "done"
        /\ procs[q].st = "Pending" /\ procs[q].resp.code = 404

----------------------------------------------------------------------------
(* C9 *)

\* C9: the patch step of an upgrade either succeeds, replies 200 with the
\* Watcher in status Ready and changes nothing but the container
\* specification of its Workload (same replicas, labels and status, same
\* Configs and Endpoints), or fails, replies 500 and changes nothing.
C9_UpgradeFrame ==
    [][\A p \in Procs :
        (Acts(p) /\ procs[p].op = "handlers::upgrade_watcher" /\ procs[p].pc = "patch")
        => LET r == procs'[p]
               id == r.id
           IN /\ r.pc = "done"
              /\ r.resp.code \in {200, 500}
              /\ UNCHANGED <<configmaps, services>>
              /\ r.resp.code = 200 =>
                    /\ r.resp.watcher # None
                    /\ r.resp.watcher[1].status = Some("Ready")
                    /\ id \in DOMAIN deployments
                    /\ deployments' = [deployments EXCEPT
                            ![id].containers = container_spec(id, r.resp.watcher[1].ingest_port)]
              /\ r.resp.code = 500 => UNCHANGED deployments]_vars

\* an upgrade succeeded on a Workload whose replica count is 1: the new
\* container specification is in place and the replica count still is 1
C9_Witness ==
    \E p \in Procs :
        /\ procs[p].op = "handlers::upgrade_watcher" /\ procs[p].pc = "done"
        /\ procs[p].resp.code = 200
        /\ ExistingId \in DOMAIN deployments
        /\ deployments[ExistingId].containers = container_spec(ExistingId, 8080)
        /\ deployments[ExistingId].replicas = 1

----------------------------------------------------------------------------
(* C10 *)

\* C10: a creation takes an id that no resource carries and that differs
\* from the id posted; when its three creation calls have succeeded it
\* replies 201 with a Watcher of that id, status Pending and no ingest
\* address, whatever the platform has reported for the new Workload.
C10_CreateReply ==
    [][\A p \in Procs :
        (Acts(p) /\ procs'[p].op = "handlers::create_watcher")
        => LET r == procs'[p]
           IN /\ Free(p) =>
                    /\ r.id \notin DOMAIN configmaps \cup DOMAIN deployments \cup DOMAIN services
                    /\ \A q \in Procs : procs[q].op = "handlers::create_watcher" => procs[q].id # r.id
              /\ (r.pc = "done" /\ r.resp # Panicked) =>
                    /\ r.calls = <<"create(ConfigMap)", "create(Deployment)", "create(Service)">>
                    /\ r.resp.code = 201
                    /\ r.resp.watcher # None
                    /\ r.resp.watcher[1].id = Some(r.id)
                    /\ r.resp.watcher[1].status = Some("Pending")
                    /\ r.resp.watcher[1].ingest_ip = None
                    /\ r.id \in DOMAIN configmaps' => configmaps'[r.id].id = Some(r.id)]_vars

\* a creation has replied 201 with a new id and status Pending while the
\* platform reports the new Workload as stopped, so that its derived status
\* is Ready
C10_Witness ==
    \E p \in Procs :
        /\ procs[p].op = "handlers::create_watcher" /\ Replied(p)
        /\ procs[p].resp.code = 201
        /\ procs[p].resp.watcher[1].status = Some("Pending")
        /\ procs[p].id # ExistingId
        /\ procs[p].id \in DOMAIN deployments
        /\ get_watcher_status(deployments[procs[p].id]) = "Ready"

----------------------------------------------------------------------------
(* C11 *)

CreateCalls == <<"create(ConfigMap)", "create(Deployment)", "create(Service)">>

\* every resource of `old` is in `new`, unchanged
Kept(old, new) == \A k \in DOMAIN old : k \in DOMAIN new /\ new[k] = old[k]

\* C11: every step of a creation issues exactly the next call of the order
\* Config, Workload, Endpoint (the calls issued so far are a prefix of that
\* order, so a call is only issued after the previous one succeeded); a
\* step removes or changes no resource; a successful call adds the resource
\* of that kind under the new id and leaves the other kinds alone; a failed
\* call changes nothing, so what was created before remains, and ends the
\* request, so no later creation call is issued.
C11_CreateOrderNoRollback ==
    [][\A p \in Procs :
        (Acts(p) /\ procs'[p].op = "handlers::create_watcher")
        => LET r == procs'[p]
               n == Len(r.calls)
           IN /\ n = (IF Begins(p) THEN 1 ELSE Len(procs[p].calls) + 1)
              /\ n <= 3 /\ r.calls = SubSeq(CreateCalls, 1, n)
              /\ Kept(configmaps, configmaps') /\ Kept(deployments, deployments')
              /\ Kept(services, services')
              /\ IF r.resp = Panicked
                 THEN /\ r.pc = "done"
                      /\ UNCHANGED <<configmaps, deployments, services>>
                 ELSE /\ n = 1 => r.id \in DOMAIN configmaps' /\ UNCHANGED <<deployments, services>>
                      /\ n = 2 => r.id \in DOMAIN deployments' /\ UNCHANGED <<configmaps, services>>
                      /\ n = 3 => r.id \in DOMAIN services' /\ UNCHANGED <<configmaps, deployments>>
              /\ r.pc = "done" => (r.resp = Panicked \/ n = 3)]_vars

\* a creation failed at its Workload call: its Config remains without a
\* Workload or an Endpoint, and a listing has reported that Watcher with
\* status Error
C11_Witness ==
    \E p, q \in Procs :
        /\ procs[p].op = "handlers::create_watcher" /\ procs[p].resp = Panicked
        /\ procs[p].calls = SubSeq(CreateCalls, 1, 2)
        /\ procs[p].id \in DOMAIN configmaps
        /\ procs[p].id \notin DOMAIN deployments \cup DOMAIN services
        /\ procs[q].op = "handlers::list_watchers" /\ Replied(q)
        /\ procs[p].id \in DOMAIN procs[q].resp.watchers
        /\ procs[q].resp.watchers[procs[p].id].status = Some("Error")

----------------------------------------------------------------------------
(* C12 *)

\* C12: a deletion replies 404 only when its Endpoint delete call failed for
\* a reason other than the Endpoint being absent; a deletion that finds the
\* Workload, the Config or the Endpoint already missing replies 200.
C12_DeleteAbsentIsNotFailure ==
    \A p \in Procs :
        (procs[p].op = "handlers::delete_watcher" /\ procs[p].pc = "done")
        => (procs[p].resp.code = 404 => procs[p].st = "call_failed")

----------------------------------------------------------------------------
(* C13 *)

\* the step of slot p is the Workload read of a listing
ListReads(p) == Begins(p) /\ procs'[p].op = "handlers::list_watchers"
\* the step of slot p is the Config read of a listing
ListReadsConfigs(p) ==
    /\ Acts(p) /\ procs[p].op = "handlers::list_watchers"
    /\ procs[p].pc = "list_configmaps"

\* C13: the Workload read of a listing indexes every Workload that carries a
\* watcher_id label by the status derived from it (Running for target
\* Running with available replicas > 0); its Config read returns exactly one
\* Watcher per Config, hence none for a Workload without Config, each with
\* the Config's id, the indexed status of that id, or Error when the index
\* has none, and no ingest address.
C13_ListPerConfig ==
    [][\A p \in Procs :
        /\ (ListReads(p) /\ procs'[p].resp # Panicked) =>
              LET index == procs'[p].index
              IN /\ DOMAIN index = selected(deployments)
                 /\ \A id \in DOMAIN index :
                       /\ index[id] = get_watcher_status(deployments[id])
                       /\ (/\ TargetText(deployments[id]) = Some("Running")
                           /\ deployments[id].status # None
                           /\ Available(deployments[id]) > 0) => index[id] = "Running"
        /\ (ListReadsConfigs(p) /\ procs'[p].resp # Panicked) =>
              LET index == procs[p].index
                  ws == procs'[p].resp.watchers
              IN /\ procs'[p].resp.code = 200
                 /\ DOMAIN ws = DOMAIN configmaps
                 /\ \A c \in DOMAIN ws :
                       /\ ws[c].id = configmaps[c].id
                       /\ ws[c].ingest_ip = None
                       /\ ws[c].status = Some(IF c \in DOMAIN index THEN index[c] ELSE "Error")]_vars

\* a listing of two Configs, one with a Workload that is Running and one
\* without Workload, has returned two Watchers, one Running and one Error
C13_Witness ==
    \E p \in Procs :
        /\ procs[p].op = "handlers::list_watchers" /\ Replied(p)
        /\ DOMAIN configmaps = Ids
        /\ DOMAIN deployments = {ExistingId}
        /\ get_watcher_status(deployments[ExistingId]) = "Running"
        /\ DOMAIN procs[p].resp.watchers = Ids
        /\ Cardinality({c \in Ids : procs[p].resp.watchers[c].status = Some("Running")}) = 1
        /\ Cardinality({c \in Ids : procs[p].resp.watchers[c].status = Some("Error")}) = 1

----------------------------------------------------------------------------
(* C14 *)

\* C14: a get replies 404 when the Workload of the id is missing and when
\* its Config is missing; a get that found both ends with 200 and the
\* Watcher in the status derived from the Workload.
C14_GetNotFoundOrOk ==
    [][\A p \in Procs :
        /\ (/\ Begins(p) /\ procs'[p].op = "handlers::get_watcher"
            /\ procs'[p].id \notin DOMAIN deployments)
           => (procs'[p].pc = "done" /\ procs'[p].resp = Reply(404, ""))
        /\ (/\ Acts(p) /\ procs[p].op = "handlers::get_watcher"
            /\ procs[p].pc = "get_configmap"
            /\ procs[p].id \notin DOMAIN configmaps)
           => (procs'[p].pc = "done" /\ procs'[p].resp = Reply(404, ""))
        /\ (/\ Acts(p) /\ procs'[p].op = "handlers::get_watcher"
            /\ procs'[p].pc = "done"
            /\ procs'[p].resp # Reply(404, ""))
           => /\ procs'[p].resp # Panicked
              /\ procs'[p].resp.code = 200
              /\ procs'[p].resp.watcher[1].status = Some(procs'[p].st)]_vars

----------------------------------------------------------------------------
(* C15 *)

\* C15: the enrichment of a get never turns into an error.  A get that
\* found Workload and Config: with status Error, replies 200 without reading
\* the Endpoint; with status Pending and no pod or no waiting reason, goes on
\* without a status_description; with a status other than Error and the
\* Endpoint absent, replies 200 with no ingest address.
C15_EnrichmentBestEffort ==
    [][\A p \in Procs :
        (Acts(p) /\ procs[p].op = "handlers::get_watcher")
        => LET r == procs'[p]
           IN /\ (procs[p].pc = "get_configmap" /\ r.w # None /\ r.st = "Error")
                    => (r.pc = "done" /\ r.resp # Panicked /\ r.resp.code = 200)
              /\ (procs[p].pc = "get_service" /\ procs[p].id \notin DOMAIN services)
                    => /\ r.pc = "done" /\ r.resp # Panicked
                       /\ r.resp.code = 200
                       /\ r.resp.watcher[1].ingest_ip = None]_vars

----------------------------------------------------------------------------
(* C16 *)

\* the requests with a mutating step
MutatingOps == GuardedOps \cup {"handlers::create_watcher"}

\* C16: a start, stop or create request whose scale, label or creation call
\* fails still ends with a response that reports the failure: no such
\* request ends by panicking, and none issues a call twice.
C16_FailureSurfaced ==
    \A p \in Procs :
        procs[p].op \in MutatingOps
        => /\ procs[p].pc = "done" => procs[p].resp # Panicked
           /\ \A i, j \in DOMAIN procs[p].calls :
                 procs[p].calls[i] = procs[p].calls[j] => i = j

----------------------------------------------------------------------------
(* C17 *)

\* a start of `id` had its scale call succeed and its label patch fail, and
\* the Workload still has what that left: replicas 1 under target Ready
HalfStarted(id) ==
    /\ id \in DOMAIN deployments
    /\ deployments[id].replicas = 1
    /\ TargetText(deployments[id]) = Some("Ready")
    /\ \E p \in Procs :
         /\ procs[p].op \in StartOps /\ procs[p].id = id
         /\ procs[p].resp = Panicked
         /\ procs[p].calls = <<"patch_scale(replicas=1)", "patch(target_status=Running)">>

\* a stop of `id` had its scale call succeed and its label patch fail, and
\* the Workload still has what that left: replicas 0 under target Running
HalfStopped(id) ==
    /\ id \in DOMAIN deployments
    /\ deployments[id].replicas = 0
    /\ TargetText(deployments[id]) = Some("Running")
    /\ \E p \in Procs :
         /\ procs[p].op \in StopOps /\ procs[p].id = id
         /\ procs[p].resp = Panicked
         /\ procs[p].calls = <<"patch_scale(replicas=0)", "patch(target_status=Ready)">>

\* the platform reports the replica count the Workload was scaled to
CaughtUp(id) ==
    /\ deployments[id].status # None
    /\ Observed(deployments[id]) = (IF deployments[id].replicas > 0 THEN "Running" ELSE "Ready")

\* the step of slot p fetches the Workload of `id` and derives a status
Reads(p, id) ==
    /\ Begins(p) /\ procs'[p].op \in ReadOps
    /\ procs'[p].id = id /\ procs'[p].st # "unfetched"

\* C17 as claimed: after a start or a stop whose scale call succeeded and
\* whose label patch failed, every read derives Pending or Error, never
\* Ready or Running, as long as the label is not corrected.
C17_HalfDoneReadsPending ==
    [][\A p \in Procs, id \in Ids :
        (Reads(p, id) /\ (HalfStarted(id) \/ HalfStopped(id)))
        => procs'[p].st \in {"Pending", "Error"}]_vars

\* C17 as amended: after such a start or stop, every read made once the
\* platform reports the scaled replica count derives Pending, as long as
\* neither the label nor the replica count is changed.
C17_HalfDoneReadsPendingOnceReported ==
    [][\A p \in Procs, id \in Ids :
        (Reads(p, id) /\ (HalfStarted(id) \/ HalfStopped(id)) /\ CaughtUp(id))
        => procs'[p].st = "Pending"]_vars

\* a start was left half done, the platform has made the replica available,
\* and a later stop request has been refused with CurrentlyUpdating
C17_Witness ==
    \E q \in Procs :
        /\ HalfStarted(ExistingId) /\ CaughtUp(ExistingId)
        /\ procs[q].op \in StopOps /\ procs[q].id = ExistingId
        /\ procs[q].st = "Pending"
        /\ procs[q].resp = Outcome(procs[q].op, "CurrentlyUpdating")

----------------------------------------------------------------------------
(* C18 *)

\* every request has completed and none of their platform calls failed
AllCompleted ==
    /\ \A p \in Procs : Free(p) /\ ~Failed(p)
    /\ \E p \in Procs : procs[p].pc = "done"

\* C18: concurrent start calls on a Watcher that is Ready, their Workload
\* reads, scale calls and label patches interleaved in any order with each
\* other and with the platform's replica updates: every call returns
\* Starting, AlreadyRunning or CurrentlyUpdating, and once all have
\* completed the Workload has replica count 1 and target Running.
C18_ConcurrentStartsConverge ==
    /\ \A p \in Procs :
          (procs[p].pc = "done" /\ ~Failed(p))
          => \E name \in {"Starting", "AlreadyRunning", "CurrentlyUpdating"} :
                procs[p].resp = Outcome(procs[p].op, name)
    /\ AllCompleted =>
          /\ deployments[ExistingId].replicas = 1
          /\ TargetText(deployments[ExistingId]) = Some("Running")

\* two start calls both observed Ready, both issued their scale call and
\* label patch, both returned Starting, and the Workload has replica count 1
\* and target Running
C18_Witness ==
    /\ \A p \in Procs :
          /\ procs[p].op \in StartOps /\ procs[p].pc = "done"
          /\ procs[p].st = "Ready"
          /\ Len(procs[p].calls) = 2
          /\ procs[p].resp = Outcome(procs[p].op, "Starting")
    /\ procs[1].calls = procs[2].calls
    /\ deployments[ExistingId].replicas = 1
    /\ TargetText(deployments[ExistingId]) = Some("Running")

----------------------------------------------------------------------------
(* C19 *)

\* the replica count and the target label of a Workload agree
Agree(d) ==
    \/ d.replicas = 1 /\ TargetText(d) = Some("Running")
    \/ d.replicas = 0 /\ TargetText(d) = Some("Ready")

\* C19: concurrent start and stop calls on one Watcher, their steps
\* interleaved in any order with each other and with the platform's replica
\* updates: once all calls have completed, all platform calls having
\* succeeded, the replica count and the target label of the Workload agree.
C19_ConcurrentGuardedAgree ==
    AllCompleted => Agree(deployments[ExistingId])

----------------------------------------------------------------------------
(* C20 *)

\* the status a read of the Workloads derives for the Watcher of Config c
Derived(c) ==
    IF c \in selected(deployments) THEN get_watcher_status(deployments[c]) ELSE "Error"

\* C20: a listing that runs with no other request in flight reports for
\* every Config the status derived from the cluster as it is: its Workload
\* read indexes exactly the Workloads present by their derived status, and
\* at its Config read the Workloads are still the ones indexed, every
\* reported status being the one derived from the Workload now, unless the
\* platform has reported the Workload's replica count in between, and Error
\* for a Config without Workload.
C20_QuietListIsConsistent ==
    [][\A p \in Procs :
        /\ (ListReads(p) /\ procs'[p].resp # Panicked) =>
              /\ DOMAIN procs'[p].index = selected(deployments)
              /\ \A c \in DOMAIN configmaps :
                    calculated_status(procs'[p].index, configmaps[c]) = Derived(c)
        /\ (ListReadsConfigs(p) /\ procs'[p].resp # Panicked) =>
              LET ws == procs'[p].resp.watchers
              IN /\ DOMAIN procs[p].index = selected(deployments)
                 /\ DOMAIN ws = DOMAIN configmaps
                 /\ \A c \in DOMAIN ws :
                       \/ ws[c].status = Some(Derived(c))
                       \/ /\ c \in DOMAIN deployments
                          /\ deployments[c].status = reported_status(deployments[c].replicas)]_vars

\* a creation has completed, and a listing made after it reports the new
\* Watcher as Ready, the status derived from its Workload, next to the
\* Watcher that existed before
C20_Witness ==
    \E p, q \in Procs :
        /\ procs[p].op = "handlers::create_watcher" /\ Replied(p)
        /\ procs[q].op = "handlers::list_watchers" /\ Replied(q)
        /\ DOMAIN procs[q].resp.watchers = Ids
        /\ procs[q].resp.watchers[procs[p].id].status = Some("Ready")
        /\ Derived(procs[p].id) = "Ready"

\* a listing whose two reads had a creation in between has reported Error
\* for a Watcher whose Workload exists and derives Ready
C20_TransientMismatch ==
    \E p, q \in Procs :
        /\ procs[p].op = "handlers::create_watcher" /\ Replied(p)
        /\ procs[q].op = "handlers::list_watchers" /\ Replied(q)
        /\ procs[p].id \notin DOMAIN procs[q].index
        /\ procs[p].id \in DOMAIN procs[q].resp.watchers
        /\ procs[q].resp.watchers[procs[p].id].status = Some("Error")
        /\ Derived(procs[p].id) = "Ready"

----------------------------------------------------------------------------
(* C21 *)

\* the step of slot p is a step of a latest-frame request at position pc
FrameStep(p, pc) ==
    Acts(p) /\ procs[p].op = "handlers::get_video_frame" /\ procs[p].pc = pc

\* C21: a latest-frame request replies 404 when the Config or the Workload
\* is missing, 406 when the derived status is Ready, Pending or Error, 417
\* when there is no pod IP, when a downstream call fails in transport and
\* when both ports answer with a non-success status, and the image with
\* Cache-Control: no-store once the pod has answered with success; it calls
\* the pod only after it has found the Config and the Workload and derived
\* Running.
C21_FrameGuard ==
    [][\A p \in Procs :
        LET r == procs'[p]
        IN /\ (/\ Begins(p) /\ r.op = "handlers::get_video_frame"
               /\ r.id \notin DOMAIN configmaps)
              => (r.pc = "done" /\ r.resp = FrameReply(404))
           /\ FrameStep(p, "get_deployment") =>
                 /\ procs[p].id \notin DOMAIN deployments
                       => (r.pc = "done" /\ r.resp = FrameReply(404))
                 /\ r.st \in {"Ready", "Pending", "Error"}
                       => (r.pc = "done" /\ r.resp = FrameReply(406))
           /\ (FrameStep(p, "list_pods") /\ r.pc = "done" /\ r.resp # Panicked)
                 => r.resp = FrameReply(417)
           /\ (Acts(p) /\ r.op = "handlers::get_video_frame" /\ r.calls # procs[p].calls)
                 => (procs[p].w # None /\ procs[p].st = "Running")
           /\ (FrameStep(p, "call") /\ r.pc = "done") => r.resp = FrameReply(417)
           /\ FrameStep(p, "read_body") =>
                 /\ r.pc = "done"
                 /\ r.resp # Panicked
                 /\ r.resp.code = 200
                 /\ r.resp.body = "image"
                 /\ r.resp.headers.cache_control = "no-store"]_vars

----------------------------------------------------------------------------
(* C22 *)

\* C22: a latest-frame request calls the pod at most twice, on the
\* Watcher's ingest port and then on port 3030, and always ends with a
\* response: the image, or one of the statuses 404, 406 and 417.
C22_FrameTerminates ==
    \A p \in Procs :
        procs[p].op = "handlers::get_video_frame"
        => /\ Len(procs[p].calls) <= 2
           /\ (procs[p].w # None) =>
                (procs[p].calls =
                    SubSeq(<<frame_call(procs[p].w[1].ingest_port), frame_call(3030)>>,
                           1, Len(procs[p].calls)))
           /\ (procs[p].pc = "done") =>
                (/\ procs[p].resp # Panicked
                 /\ procs[p].resp.code \in {200, 404, 406, 417})

----------------------------------------------------------------------------
(* C23 *)

\* the scale call and the label patch of the transition branch of `op`
ScaleCall(op) == IF op \in StartOps THEN "patch_scale(replicas=1)" ELSE "patch_scale(replicas=0)"
LabelCall(op) ==
    IF op \in StartOps THEN "patch(target_status=Running)" ELSE "patch(target_status=Ready)"

\* C23: in the transition branch of start and of stop the scale call comes
\* first: the request goes on to the label patch only when the scale call
\* has set the replica count, and ends without a label patch when it failed;
\* the label patch is issued only by a request whose only call so far is
\* its scale call, and no step changes a target label except such a patch.
C23_ScaleBeforeLabel ==
    [][/\ \A p \in Procs :
            (Acts(p) /\ procs[p].op \in GuardedOps) =>
                LET r == procs'[p]
                    id == procs[p].id
                IN /\ procs[p].pc = "scale" =>
                        /\ procs[p].calls = <<>>
                        /\ r.calls = <<ScaleCall(r.op)>>
                        /\ IF r.pc = "label"
                           THEN /\ deployments'[id].replicas = (IF r.op \in StartOps THEN 1 ELSE 0)
                                /\ deployments'[id].labels = deployments[id].labels
                           ELSE /\ r.pc = "done" /\ r.resp = Panicked
                                /\ UNCHANGED deployments
                   /\ procs[p].pc = "label" =>
                        /\ procs[p].calls = <<ScaleCall(r.op)>>
                        /\ r.calls = <<ScaleCall(r.op), LabelCall(r.op)>>
                   /\ procs[p].pc \notin {"scale", "label"} => r.calls = <<>>
       /\ \A id \in DOMAIN deployments :
            (id \in DOMAIN deployments' /\ deployments'[id].labels # deployments[id].labels)
            => \E p \in Procs :
                  /\ Acts(p) /\ procs[p].op \in GuardedOps /\ procs[p].id = id
                  /\ procs[p].pc = "label"
                  /\ procs[p].calls = <<ScaleCall(procs[p].op)>>]_vars

\* a stop had its scale call fail: it ended there, having issued no label
\* patch, and the Workload still carries target Running
C23_Witness ==
    \E p \in Procs :
        /\ procs[p].op \in StopOps /\ procs[p].resp = Panicked
        /\ procs[p].calls = <<"patch_scale(replicas=0)">>
        /\ ExistingId \in DOMAIN deployments
        /\ TargetText(deployments[ExistingId]) = Some("Running")
        /\ deployments[ExistingId].replicas = 1

----------------------------------------------------------------------------
(* C24 *)

DeleteCalls == <<"delete(Deployment)", "delete(ConfigMap)", "delete(Service)">>

\* the step removes at most the resource `id` from `old`
RemovesAtMost(old, new, id) ==
    /\ DOMAIN old \ {id} \subseteq DOMAIN new /\ DOMAIN new \subseteq DOMAIN old
    /\ \A k \in DOMAIN new : new[k] = old[k]

\* C24: a deletion issues its three delete calls in the order Workload,
\* Config, Endpoint, going on to the next whatever the previous one
\* returned, each removing at most the resource of that kind; its reply is
\* 200 exactly when the Endpoint delete removed the Endpoint and 404
\* otherwise, whether or not the Workload and the Config were removed.
C24_DeleteOrderAndReply ==
    [][\A p \in Procs :
        (Acts(p) /\ procs'[p].op = "handlers::delete_watcher")
        => LET r == procs'[p]
               id == r.id
           IN /\ Begins(p) =>
                    /\ r.calls = SubSeq(DeleteCalls, 1, 1) /\ r.pc = "delete_configmap"
                    /\ RemovesAtMost(deployments, deployments', id)
                    /\ UNCHANGED <<configmaps, services>>
              /\ (~Begins(p) /\ procs[p].pc = "delete_configmap") =>
                    /\ r.calls = SubSeq(DeleteCalls, 1, 2) /\ r.pc = "delete_service"
                    /\ RemovesAtMost(configmaps, configmaps', id)
                    /\ UNCHANGED <<deployments, services>>
              /\ (~Begins(p) /\ procs[p].pc = "delete_service") =>
                    /\ r.calls = DeleteCalls /\ r.pc = "done"
                    /\ RemovesAtMost(services, services', id)
                    /\ UNCHANGED <<deployments, configmaps>>
                    /\ r.resp.code = (IF id \in DOMAIN services /\ id \notin DOMAIN services'
                                      THEN 200 ELSE 404)]_vars

\* a deletion whose Workload and Config deletes failed and whose Endpoint
\* delete succeeded has replied 200, Workload and Config remaining
C24_Witness ==
    \E p \in Procs :
        /\ procs[p].op = "handlers::delete_watcher" /\ procs[p].pc = "done"
        /\ procs[p].resp.code = 200
        /\ procs[p].id \in DOMAIN deployments \cap DOMAIN configmaps
        /\ procs[p].id \notin DOMAIN services

----------------------------------------------------------------------------
(* C25 *)

\* none of the three resources of `id` exists
Gone(id) == id \notin DOMAIN deployments \cup DOMAIN configmaps \cup DOMAIN services

\* C25: once the three resources of a Watcher are deleted, and no creation
\* following, every request on its id finds it gone and changes nothing:
\* start and stop return NotFound, get, upgrade and latest-frame reply 404,
\* a listing does not contain it, and a further deletion issues its three
\* calls and replies 404.
C25_GoneAfterDelete ==
    [][\A p \in Procs :
        (Gone(ExistingId) /\ Acts(p))
        => LET r == procs'[p]
           IN /\ UNCHANGED <<deployments, configmaps, services>>
              /\ (Begins(p) /\ r.op \in GuardedOps) =>
                    (r.pc = "done" /\ r.calls = <<>> /\ r.resp = Outcome(r.op, "NotFound"))
              /\ (Begins(p) /\ r.op \in {"handlers::get_watcher", "handlers::upgrade_watcher"}) =>
                    (r.pc = "done" /\ r.resp = Reply(404, ""))
              /\ (Begins(p) /\ r.op = "handlers::get_video_frame") =>
                    (r.pc = "done" /\ r.resp = FrameReply(404))
              /\ (r.op = "handlers::list_watchers" /\ r.pc = "done" /\ r.resp # Panicked) =>
                    ExistingId \notin DOMAIN r.resp.watchers
              /\ (r.op = "handlers::delete_watcher" /\ r.pc = "done") =>
                    (r.calls = DeleteCalls /\ r.resp.code = 404)]_vars

\* a deletion removed the Endpoint last and replied 200, the Watcher is gone,
\* and a start made after it has returned NotFound
C25_Witness ==
    \E p, q \in Procs :
        /\ Gone(ExistingId)
        /\ procs[p].op = "handlers::delete_watcher" /\ procs[p].pc = "done"
        /\ procs[p].st = "deleted" /\ procs[p].resp.code = 200
        /\ procs[q].op \in StartOps /\ procs[q].pc = "done"
        /\ procs[q].st = "unfetched"
        /\ procs[q].resp = Outcome(procs[q].op, "NotFound")

----------------------------------------------------------------------------
(* C26 *)

\* the status every reader derives for the Watcher `id`
DerivedIs(id, status) ==
    /\ id \in DOMAIN deployments
    /\ get_watcher_status(deployments[id]) = status
    /\ WatcherStatus_get_watcher_status(deployments[id]) = status

\* the request in slot p made its two platform calls and returned `name`
Returned(p, ops, name) ==
    /\ procs[p].op \in ops /\ procs[p].pc = "done"
    /\ procs[p].resp = Outcome(procs[p].op, name)

\* this step is the first step of a request of `ops` that fetched the Workload
Repeats(p, ops) == Begins(p) /\ procs'[p].op \in ops /\ procs'[p].st # "unfetched"

\* C26: with only starts (resp. only stops) requested on a Watcher and the
\* platform eventually reporting the requested replica count, once a start
\* has returned Starting (resp. a stop Stopping) the derived status eventually
\* is Running (resp. Ready) and remains so, and a start (resp. stop) made
\* while it is returns AlreadyRunning (resp. AlreadyStopped) with no
\* mutating call.
C26_TransitionsSettle ==
    /\ []((\E p \in Procs : Returned(p, StartOps, "Starting"))
            => <>[]DerivedIs(ExistingId, "Running"))
    /\ []((\E p \in Procs : Returned(p, StopOps, "Stopping"))
            => <>[]DerivedIs(ExistingId, "Ready"))
    /\ [][\A p \in Procs :
            /\ (DerivedIs(ExistingId, "Running") /\ Repeats(p, StartOps)) =>
                  /\ procs'[p].pc = "done" /\ procs'[p].calls = <<>>
                  /\ procs'[p].resp = Outcome(procs'[p].op, "AlreadyRunning")
                  /\ UNCHANGED deployments
            /\ (DerivedIs(ExistingId, "Ready") /\ Repeats(p, StopOps)) =>
                  /\ procs'[p].pc = "done" /\ procs'[p].calls = <<>>
                  /\ procs'[p].resp = Outcome(procs'[p].op, "AlreadyStopped")
                  /\ UNCHANGED deployments]_vars

\* a start returned Starting, the platform reported the replica, and the
\* start repeated since returned AlreadyRunning
C26_Witness ==
    \E p, q \in Procs :
        /\ Returned(p, StartOps, "Starting")
        /\ DerivedIs(ExistingId, "Running")
        /\ Returned(q, StartOps, "AlreadyRunning")

----------------------------------------------------------------------------
(* C27 *)

\* this step is the patch call of the upgrade in slot p, and the platform applied it
UpgradePatchApplied(p) ==
    /\ procs[p].op = "handlers::upgrade_watcher" /\ procs[p].pc = "patch"
    /\ procs'[p].pc = "done" /\ procs'[p].resp.code = 200

\* C27: whenever the container-spec patch of an upgrade is applied, the
\* Workload it is applied to is stopped: its replica count is 0 and its
\* target_status label is Ready, also when a start on the same Watcher runs
\* between the upgrade's read of the Workload and its patch.
C27_UpgradePatchesStopped ==
    [][\A p \in Procs :
        UpgradePatchApplied(p) =>
            /\ deployments[procs[p].id].replicas = 0
            /\ TargetText(deployments[procs[p].id]) = Some("Ready")]_vars

----------------------------------------------------------------------------
(* C28 *)

\* no start or stop is in progress and no platform call of one has failed
GuardedQuiet ==
    \A p \in Procs :
        procs[p].op \in GuardedOps => (procs[p].pc = "done" /\ ~Failed(p))

\* the requested replica count is 0 or 1 and the target label Ready or Running
WellFormed(d) ==
    /\ d.replicas \in {0, 1}
    /\ TargetText(d) \in {Some("Ready"), Some("Running")}

\* C28: every Workload modified only by the API's requests has a requested
\* replica count of 0 or 1 and a target_status label of Ready or Running;
\* and whenever no start or stop is in progress and no platform call has
\* failed, replica count 1 goes with target Running and 0 with target Ready.
C28_WorkloadInvariant ==
    \A id \in DOMAIN deployments :
        /\ WellFormed(deployments[id])
        /\ GuardedQuiet =>
              (deployments[id].replicas = 1 <=> TargetText(deployments[id]) = Some("Running"))

\* the first half alone
C28_WellFormedOnly == \A id \in DOMAIN deployments : WellFormed(deployments[id])

----------------------------------------------------------------------------
(* C29 *)

\* the HTTP status code that corresponds to an outcome of the backend
OutcomeCode(name) ==
    CASE name \in {"AlreadyRunning", "AlreadyStopped", "Starting", "Stopping"} -> 200
      [] name = "CurrentlyUpdating" -> 409
      [] name = "InErrorState" -> 406
      [] name = "NotFound" -> 404

OutcomeNames ==
    {"AlreadyRunning", "AlreadyStopped", "Starting", "Stopping",
     "CurrentlyUpdating", "InErrorState", "NotFound"}

\* the result b of the backend copy and the result h of the handlers copy
\* correspond: both go on, both panic, or h replies the code of b's outcome
Corresponds(b, h) ==
    \/ b = NoReply /\ h = NoReply
    \/ b = Panicked /\ h = Panicked
    \/ \E name \in OutcomeNames :
          /\ b = Variant(name)
          /\ h = Outcome("handlers::start_watcher", name) \/ h = Outcome("handlers::stop_watcher", name)
          /\ h.code = OutcomeCode(name)

\* the guards of the two copies applied to the Workload d by a start (resp. stop)
BackendGuard(op, d) ==
    IF op \in StartOps THEN backend_start_watcher_match(get_watcher_status(d))
    ELSE backend_stop_watcher_match(get_watcher_status(d))

HandlersGuard(op, d) ==
    IF op \in StartOps THEN handlers_start_watcher_match(WatcherStatus_get_watcher_status(d))
    ELSE handlers_stop_watcher_match(WatcherStatus_get_watcher_status(d))

IsBackend(op) == op \in {"backend::start_watcher", "backend::stop_watcher"}

\* C29: the backend and the handlers copies of start and of stop are
\* equivalent. On every Workload a request fetches, the two resolvers derive
\* the same status and the two guards take the same branch with corresponding
\* outcomes (AlreadyRunning, AlreadyStopped, Starting, Stopping = 200,
\* CurrentlyUpdating = 409, InErrorState = 406, NotFound = 404), the request
\* taking the branch of its copy; the platform calls that follow are the
\* same call with the same argument and the same effect in either copy.
C29_CopiesEquivalent ==
    [][\A p \in Procs :
        LET r == procs'[p]
            a == procs[p]
        IN /\ (Begins(p) /\ r.op \in GuardedOps /\ r.st = "unfetched") =>
                 /\ r.pc = "done" /\ r.calls = <<>>
                 /\ Corresponds(Variant("NotFound"), Outcome("handlers::start_watcher", "NotFound"))
                 /\ r.resp = Outcome(r.op, "NotFound")
           /\ (Begins(p) /\ r.op \in GuardedOps /\ r.st # "unfetched") =>
                 LET d == deployments[r.id]
                     b == BackendGuard(r.op, d)
                     h == HandlersGuard(r.op, d)
                 IN /\ get_watcher_status(d) = WatcherStatus_get_watcher_status(d)
                    /\ r.st = get_watcher_status(d)
                    /\ b.pc = h.pc
                    /\ Corresponds(b.resp, h.resp)
                    /\ r.pc = b.pc /\ r.calls = <<>>
                    /\ r.resp = (IF IsBackend(r.op) THEN b.resp ELSE h.resp)
           /\ (Acts(p) /\ a.op \in GuardedOps /\ a.pc = "scale") =>
                 /\ r.calls = Append(a.calls, ScaleCall(a.op))
                 /\ \/ /\ r.pc = "label" /\ r.resp = NoReply
                       /\ deployments' = [deployments EXCEPT ![a.id].replicas =
                                              IF a.op \in StartOps THEN 1 ELSE 0]
                    \/ /\ r.pc = "done" /\ r.resp = Panicked
                       /\ UNCHANGED deployments
           /\ (Acts(p) /\ a.op \in GuardedOps /\ a.pc = "label") =>
                 /\ r.calls = Append(a.calls, LabelCall(a.op))
                 /\ r.pc = "done"
                 /\ \/ /\ r.resp = Outcome(a.op, IF a.op \in StartOps THEN "Starting" ELSE "Stopping")
                       /\ Corresponds(Variant(IF a.op \in StartOps THEN "Starting" ELSE "Stopping"),
                                      Outcome(IF a.op \in StartOps THEN "handlers::start_watcher"
                                              ELSE "handlers::stop_watcher",
                                              IF a.op \in StartOps THEN "Starting" ELSE "Stopping"))
                       /\ deployments' = [deployments EXCEPT ![a.id].labels =
                              merge_label(@, to_label(IF a.op \in StartOps THEN "Running" ELSE "Ready"))]
                    \/ /\ r.resp = Panicked
                       /\ UNCHANGED deployments]_vars

\* a start of each copy observed Ready on the same Watcher, issued the same
\* two calls and returned Starting, as the variant and as 200
C29_Witness ==
    \E p, q \in Procs :
        /\ procs[p].op = "backend::start_watcher" /\ procs[q].op = "handlers::start_watcher"
        /\ procs[p].id = procs[q].id
        /\ procs[p].pc = "done" /\ procs[q].pc = "done"
        /\ procs[p].st = "Ready" /\ procs[q].st = "Ready"
        /\ Len(procs[p].calls) = 2 /\ procs[p].calls = procs[q].calls
        /\ procs[p].resp = Variant("Starting")
        /\ procs[q].resp = Reply(200, "Watcher is starting")
        /\ Corresponds(procs[p].resp, procs[q].resp)

====
